---- MODULE Spec2Model ----
(***************************************************************************)
(* Model of the StackStart enhancement engine                              *)
(* (src/generators/ai-enhancer.ts): the file scanner, the manifest reader, *)
(* the structure classifier, the improvement synthesizer and the           *)
(* enhancement applier (enhanceWithAI).                                    *)
(*                                                                         *)
(* Paths and file contents are strings, so that String.prototype.includes, *)
(* endsWith and toLowerCase are computed on the text itself.  JavaScript    *)
(* values that may be a boolean, a string or undefined are records         *)
(* [t, b, s] (see JsBool, JsStr, JsUndefined).                             *)
(***************************************************************************)
EXTENDS Integers, Sequences, FiniteSets, TLC

VARIABLES
    template,        \* AIProjectAnalyzer.template / enhanceWithAI's argument
    disk,            \* the project tree below projectRoot, package.json excepted
    packageJsonFile, \* the file <projectRoot>/package.json
    pc,              \* position of enhanceWithAI
    analysis,        \* the ProjectAnalysis returned by analyze()
    queue,           \* the rest of the filtered list the current for-loop walks
    invoked,         \* the implementations called so far in this run, in order
    error,           \* the error caught by enhanceWithAI's catch, "none" if none
    stage,           \* where that error was thrown
    result,          \* state of the promise enhanceWithAI returned
    runs,            \* number of enhanceWithAI calls started
    faults,          \* number of I/O faults the disk has produced
    initial,         \* the project as it was when the current run started
    step,            \* position of generateScaffold ("direct": enhanceWithAI is called directly)
    rootExists,      \* whether <cwd>/<projectName> exists
    templatesDir,    \* the directories below <cwd>/templates, by name
    options,         \* the ScaffoldOptions besides template
    githubToken,     \* whether process.env.GITHUB_TOKEN is set
    calls,           \* the calls made to execa, simple-git, octokit and enhanceWithAI
    outcome,         \* state of the promise generateScaffold returned
    scaffolds,       \* number of generateScaffold calls started
    installs         \* the directories installDependencies is still to run in

scaffoldVars == <<step, rootExists, templatesDir, options, githubToken, calls,
                  outcome, scaffolds, installs>>

vars == <<template, disk, packageJsonFile, pc, analysis, queue, invoked,
          error, stage, result, runs, faults, initial, scaffoldVars>>

\* Number of enhanceWithAI calls made on one project.
MaxRuns == 2
\* Number of I/O faults the disk produces.
MaxFaults == 1
\* Number of generateScaffold calls made with one project name.
MaxScaffolds == 2

(***************************************************************************)
(* Strings                                                                 *)
(***************************************************************************)

\* String.prototype.includes
Includes(s, sub) ==
    \E i \in 1..(Len(s) - Len(sub) + 1) : SubSeq(s, i, i + Len(sub) - 1) = sub

\* String.prototype.endsWith
EndsWith(s, suffix) ==
    /\ Len(suffix) <= Len(s)
    /\ SubSeq(s, Len(s) - Len(suffix) + 1, Len(s)) = suffix

UpperCase == "ABCDEFGHIJKLMNOPQRSTUVWXYZ"
LowerCase == "abcdefghijklmnopqrstuvwxyz"

LowerChar(c) ==
    IF \E i \in 1..26 : SubSeq(UpperCase, i, i) = c
    THEN LET i == CHOOSE j \in 1..26 : SubSeq(UpperCase, j, j) = c
         IN  SubSeq(LowerCase, i, i)
    ELSE c

\* String.prototype.toLowerCase
RECURSIVE ToLowerCase(_)
ToLowerCase(s) ==
    IF Len(s) = 0 THEN ""
    ELSE LowerChar(SubSeq(s, 1, 1)) \o ToLowerCase(SubSeq(s, 2, Len(s)))

\* Characters of the names the model uses, in byte order (strcmp order).
ByteOrder == "\n \"#'()*+-./0123456789:;<=>ABCDEFGHIJKLMNOPQRSTUVWXYZ[]^_abcdefghijklmnopqrstuvwxyz{}"

CharRank(c) ==
    IF \E i \in 1..Len(ByteOrder) : SubSeq(ByteOrder, i, i) = c
    THEN CHOOSE i \in 1..Len(ByteOrder) : SubSeq(ByteOrder, i, i) = c
    ELSE 0

\* strcmp(a, b) < 0
RECURSIVE NameLess(_, _)
NameLess(a, b) ==
    IF Len(b) = 0 THEN FALSE
    ELSE IF Len(a) = 0 THEN TRUE
    ELSE LET ca == CharRank(SubSeq(a, 1, 1))
             cb == CharRank(SubSeq(b, 1, 1))
         IN  IF ca # cb THEN ca < cb
             ELSE NameLess(SubSeq(a, 2, Len(a)), SubSeq(b, 2, Len(b)))

\* The names of a set in strcmp order.
RECURSIVE SortNames(_)
SortNames(names) ==
    IF names = {} THEN <<>>
    ELSE LET least == CHOOSE n \in names : \A m \in names \ {n} : NameLess(n, m)
         IN  <<least>> \o SortNames(names \ {least})

(***************************************************************************)
(* Paths, relative to projectRoot ("" is projectRoot itself)               *)
(***************************************************************************)

\* Position of the last "/" of p, 0 if there is none.
LastSlash(p) ==
    LET at == {i \in 1..Len(p) : SubSeq(p, i, i) = "/"}
    IN  IF at = {} THEN 0 ELSE CHOOSE i \in at : \A j \in at : j <= i

\* path.dirname, relative to projectRoot
Dirname(p) == IF LastSlash(p) = 0 THEN "" ELSE SubSeq(p, 1, LastSlash(p) - 1)

\* path.basename
Basename(p) == SubSeq(p, LastSlash(p) + 1, Len(p))

\* path.join(dir, item) followed by path.relative(projectRoot, _)
Join(dir, item) == IF dir = "" THEN item ELSE dir \o "/" \o item

\* p and every directory above it, below projectRoot.
RECURSIVE Ancestors(_)
Ancestors(p) == IF p = "" THEN {} ELSE {p} \cup Ancestors(Dirname(p))

(***************************************************************************)
(* JavaScript values                                                       *)
(***************************************************************************)

JsUndefined == [t |-> "undefined", b |-> FALSE, s |-> ""]
JsBool(b) == [t |-> "boolean", b |-> b, s |-> ""]
JsStr(s) == [t |-> "string", b |-> FALSE, s |-> s]

\* ToBoolean
Truthy(v) == \/ v.t = "boolean" /\ v.b
             \/ v.t = "string" /\ v.s # ""

\* a || b
JsOr(a, b) == IF Truthy(a) THEN a ELSE b

(***************************************************************************)
(* The manifest                                                            *)
(*                                                                         *)
(* A parsed package.json is [fields, sections]: fields maps the scalar     *)
(* top-level keys (name, version, ...) to their values, sections maps each *)
(* of dependencies, devDependencies and scripts that is present to its     *)
(* map name -> string.  The file is [kind, indent, obj]: kind "none" (no   *)
(* file), "garbage" (not JSON) or "json"; indent is the indentation of the *)
(* JSON text.                                                              *)
(***************************************************************************)

EmptyMap == [k \in {} |-> ""]
EmptyObject == [fields |-> EmptyMap, sections |-> EmptyMap]

NoFile == [kind |-> "none", indent |-> 0, obj |-> EmptyObject]
GarbageFile == [kind |-> "garbage", indent |-> 0, obj |-> EmptyObject]

\* map with map[key] = value and every other entry unchanged
Put(map, key, value) ==
    [k \in DOMAIN map \cup {key} |-> IF k = key THEN value ELSE map[k]]

\* JSON.parse(readFileSync(packageJsonPath, 'utf8'))
ReadManifest(file) ==
    CASE file.kind = "none" -> [error |-> "ENOENT", value |-> EmptyObject]
      [] file.kind = "garbage" -> [error |-> "SyntaxError", value |-> EmptyObject]
      [] OTHER -> [error |-> "none", value |-> file.obj]

\* JSON.stringify(packageJson, null, 2) as written by writeFileSync
StringifyManifest(obj) == [kind |-> "json", indent |-> 2, obj |-> obj]

\* getPackageJson: the manifest, or null when there is no package.json
getPackageJson(file) ==
    IF file.kind # "none"
    THEN LET r == ReadManifest(file)
         IN  [error |-> r.error, isNull |-> FALSE, value |-> r.value]
    ELSE [error |-> "none", isNull |-> TRUE, value |-> EmptyObject]

\* packageJson?.[section]?.[key]
OptionalGet(packageJson, section, key) ==
    IF packageJson.isNull THEN JsUndefined
    ELSE IF section \notin DOMAIN packageJson.value.sections THEN JsUndefined
    ELSE IF key \notin DOMAIN packageJson.value.sections[section] THEN JsUndefined
    ELSE JsStr(packageJson.value.sections[section][key])

\* packageJson?.[section] ? Object.keys(packageJson[section]) : []
ObjectKeys(packageJson, section) ==
    IF packageJson.isNull THEN {}
    ELSE IF section \notin DOMAIN packageJson.value.sections THEN {}
    ELSE DOMAIN packageJson.value.sections[section]

(***************************************************************************)
(* The file tree                                                           *)
(*                                                                         *)
(* disk maps each path that exists to [kind, content]; kind is "dir",      *)
(* "file", "unreadable" (a file the process may not read: readFileSync     *)
(* throws EACCES) or "dangling" (a symbolic link whose target is missing:  *)
(* readdirSync lists it, existsSync is false).                             *)
(***************************************************************************)

Dir == [kind |-> "dir", content |-> ""]
File(content) == [kind |-> "file", content |-> content]
Unreadable == [kind |-> "unreadable", content |-> ""]
Dangling == [kind |-> "dangling", content |-> ""]

\* what lstatSync sees at p ("none": no such entry)
EntryKind(d, pkg, p) ==
    IF p = "" THEN "dir"
    ELSE IF p = "package.json" THEN (IF pkg.kind = "none" THEN "none" ELSE "file")
    ELSE IF p \in DOMAIN d THEN d[p].kind
    ELSE "none"

\* existsSync
existsSync(d, pkg, p) == EntryKind(d, pkg, p) \notin {"none", "dangling"}

\* readdirSync(dir): libuv's scandir sorts the names with strcmp
readdirSync(d, pkg, dir) ==
    LET paths == DOMAIN d \cup (IF pkg.kind = "none" THEN {} ELSE {"package.json"})
    IN  SortNames({Basename(p) : p \in {q \in paths : Dirname(q) = dir}})

RECURSIVE traverse(_, _, _)
RECURSIVE TraverseItems(_, _, _, _)

\* TraverseItems that skips node_modules and .git only directly under the root
RECURSIVE TraverseItemsTopLevelOnly(_, _, _, _)
TraverseItemsTopLevelOnly(d, pkg, dir, items) ==
    IF items = <<>> THEN <<>>
    ELSE LET item == Head(items)
             fullPath == Join(dir, item)
             found == IF dir = "" /\ (item = "node_modules" \/ item = ".git") THEN <<>>
                      ELSE IF EntryKind(d, pkg, fullPath) = "dir"
                           THEN traverse(d, pkg, fullPath)
                      ELSE <<fullPath>>
         IN  found \o TraverseItemsTopLevelOnly(d, pkg, dir, Tail(items))

\* the body of traverse's for-loop over the items left
TraverseItems(d, pkg, dir, items) ==
    IF items = <<>> THEN <<>>
    ELSE LET item == Head(items)
             fullPath == Join(dir, item)
             found == IF item = "node_modules" \/ item = ".git" THEN <<>>
                      ELSE IF EntryKind(d, pkg, fullPath) = "dir"
                           THEN traverse(d, pkg, fullPath)
                      ELSE <<fullPath>>
         IN  found \o TraverseItems(d, pkg, dir, Tail(items))

traverse(d, pkg, dir) ==
    IF ~existsSync(d, pkg, dir) THEN <<>>
    ELSE TraverseItems(d, pkg, dir, readdirSync(d, pkg, dir))

\* getProjectFiles
getProjectFiles(d, pkg) == traverse(d, pkg, "")

(***************************************************************************)
(* Structure classifier                                                    *)
(***************************************************************************)

\* files.some(f => f.includes(sub))
SomeIncludes(files, sub) == \E i \in 1..Len(files) : Includes(files[i], sub)

IsSourceFile(file) ==
    \/ EndsWith(file, ".js") \/ EndsWith(file, ".ts")
    \/ EndsWith(file, ".jsx") \/ EndsWith(file, ".tsx")

HasErrorKeyword(content) ==
    Includes(content, "try") \/ Includes(content, "catch") \/ Includes(content, "throw")

\* checkForErrorHandling: [error, value]; error is the code readFileSync threw
RECURSIVE checkForErrorHandling(_, _)
checkForErrorHandling(d, files) ==
    IF files = <<>> THEN [error |-> "none", value |-> FALSE]
    ELSE LET file == Head(files)
         IN  IF IsSourceFile(file) /\ existsSync(d, NoFile, file)
             THEN IF d[file].kind # "file"
                  THEN [error |-> IF d[file].kind = "dir" THEN "EISDIR" ELSE "EACCES",
                        value |-> FALSE]
                  ELSE IF HasErrorKeyword(d[file].content)
                       THEN [error |-> "none", value |-> TRUE]
                  ELSE checkForErrorHandling(d, Tail(files))
             ELSE checkForErrorHandling(d, Tail(files))

loggingLibs == <<"winston", "bunyan", "pino", "morgan">>
validationLibs == <<"joi", "yup", "ajv", "express-validator", "zod">>

\* libs.some(lib => packageJson?.dependencies?.[lib] || packageJson?.devDependencies?.[lib])
SomeLib(libs, packageJson) ==
    \E i \in 1..Len(libs) :
        Truthy(JsOr(OptionalGet(packageJson, "dependencies", libs[i]),
                    OptionalGet(packageJson, "devDependencies", libs[i])))

checkForLogging(files, packageJson) ==
    SomeLib(loggingLibs, packageJson) \/ SomeIncludes(files, "log")

checkForValidation(files, packageJson) == SomeLib(validationLibs, packageJson)

\* analyzeStructure: [error, value]; value is the ProjectStructure
analyzeStructure(d, files, packageJson) ==
    LET errorHandling == checkForErrorHandling(d, files)
    IN  [error |-> errorHandling.error,
         value |->
           [hasTests |->
                JsBool(\/ SomeIncludes(files, "test") \/ SomeIncludes(files, "spec")
                       \/ Truthy(OptionalGet(packageJson, "devDependencies", "jest"))
                       \/ Truthy(OptionalGet(packageJson, "devDependencies", "mocha"))),
            hasLinting |->
                JsOr(OptionalGet(packageJson, "devDependencies", "eslint"),
                     JsBool(SomeIncludes(files, "eslint"))),
            hasFormatting |->
                JsOr(OptionalGet(packageJson, "devDependencies", "prettier"),
                     JsBool(SomeIncludes(files, "prettier"))),
            hasTypeScript |->
                JsOr(JsBool(\E i \in 1..Len(files) :
                                EndsWith(files[i], ".ts") \/ EndsWith(files[i], ".tsx")),
                     OptionalGet(packageJson, "devDependencies", "typescript")),
            hasDocumentation |->
                JsBool(\E i \in 1..Len(files) : Includes(ToLowerCase(files[i]), "readme")),
            hasErrorHandling |-> JsBool(errorHandling.value),
            hasEnvironmentConfig |->
                JsBool(SomeIncludes(files, ".env") \/ SomeIncludes(files, "config")),
            hasLogging |-> JsBool(checkForLogging(files, packageJson)),
            hasValidation |-> JsBool(checkForValidation(files, packageJson)),
            hasApiDocumentation |->
                JsBool(SomeIncludes(files, "swagger") \/ SomeIncludes(files, "openapi"))]]

(***************************************************************************)
(* Improvement synthesizer                                                 *)
(***************************************************************************)

Enhancement(type, description, priority, implementation) ==
    [type |-> type, description |-> description, priority |-> priority,
     implementation |-> implementation]

getReactImprovements ==
    << Enhancement("file", "Add React performance optimization utilities", "medium",
                   "addReactPerformanceUtils"),
       Enhancement("dependency", "Add React Router for navigation", "medium",
                   "addReactRouter"),
       Enhancement("file", "Add custom React hooks for common patterns", "low",
                   "addReactHooks") >>

\* getNodeImprovements that returns its high-priority enhancement first
getNodeImprovementsByPriority ==
    << Enhancement("dependency", "Add security middleware (helmet, cors)", "high",
                   "addSecurityMiddleware"),
       Enhancement("file", "Add database connection utilities", "medium",
                   "addDatabaseUtils"),
       Enhancement("file", "Add rate limiting and caching", "medium",
                   "addRateLimitingAndCaching") >>

getNodeImprovements ==
    << Enhancement("file", "Add database connection utilities", "medium",
                   "addDatabaseUtils"),
       Enhancement("dependency", "Add security middleware (helmet, cors)", "high",
                   "addSecurityMiddleware"),
       Enhancement("file", "Add rate limiting and caching", "medium",
                   "addRateLimitingAndCaching") >>

getPythonImprovements ==
    << Enhancement("file", "Add Python logging configuration", "high",
                   "addPythonLogging"),
       Enhancement("file", "Add Flask/FastAPI utilities", "medium",
                   "addPythonWebUtils"),
       Enhancement("config", "Add Python type hints and mypy configuration", "medium",
                   "addPythonTypeHints") >>

\* getFullStackImprovements that forgets the node improvements
getFullStackImprovementsReactOnly ==
    getReactImprovements \o
    << Enhancement("file", "Add API client utilities for frontend-backend communication",
                   "high", "addApiClientUtils") >>

getFullStackImprovements ==
    getReactImprovements \o getNodeImprovements \o
    << Enhancement("file", "Add API client utilities for frontend-backend communication",
                   "high", "addApiClientUtils") >>

\* getTemplateSpecificImprovements whose switch cases fall through
getTemplateSpecificImprovementsFallThrough(tmpl) ==
    CASE tmpl = "react" -> getReactImprovements \o getNodeImprovements \o
                           getPythonImprovements \o getFullStackImprovements
      [] tmpl = "node" -> getNodeImprovements \o getPythonImprovements \o
                          getFullStackImprovements
      [] tmpl = "python" -> getPythonImprovements \o getFullStackImprovements
      [] tmpl = "full-stack" -> getFullStackImprovements
      [] OTHER -> <<>>

getTemplateSpecificImprovements(tmpl) ==
    CASE tmpl = "react" -> getReactImprovements
      [] tmpl = "node" -> getNodeImprovements
      [] tmpl = "python" -> getPythonImprovements
      [] tmpl = "full-stack" -> getFullStackImprovements
      [] OTHER -> <<>>

\* identifyImprovements whose environment-configuration rule tests hasLogging
identifyImprovementsEnvTestsLogging(tmpl, structure) ==
    LET Rule(condition, enhancement) == IF condition THEN <<enhancement>> ELSE <<>>
    IN  Rule(~Truthy(structure.hasLogging),
             Enhancement("dependency", "Add structured logging with Winston", "high",
                         "addLogging")) \o
        Rule(~Truthy(structure.hasErrorHandling),
             Enhancement("code", "Add comprehensive error handling", "high",
                         "addErrorHandling")) \o
        Rule(~Truthy(structure.hasLogging),
             Enhancement("config", "Add environment configuration with dotenv", "medium",
                         "addEnvironmentConfig")) \o
        Rule((tmpl = "node" \/ tmpl = "full-stack") /\ ~Truthy(structure.hasValidation),
             Enhancement("dependency", "Add input validation with Joi", "medium",
                         "addValidation")) \o
        Rule((tmpl = "node" \/ tmpl = "full-stack") /\ ~Truthy(structure.hasApiDocumentation),
             Enhancement("file", "Add API documentation with Swagger/OpenAPI", "medium",
                         "addApiDocumentation")) \o
        << Enhancement("config", "Enhance testing configuration with coverage reporting",
                       "medium", "enhanceTestingConfig") >> \o
        getTemplateSpecificImprovements(tmpl)

\* identifyImprovements whose validation and API-documentation rules omit the
\* template test
identifyImprovementsAnyTemplate(tmpl, structure) ==
    LET Rule(condition, enhancement) == IF condition THEN <<enhancement>> ELSE <<>>
    IN  Rule(~Truthy(structure.hasLogging),
             Enhancement("dependency", "Add structured logging with Winston", "high",
                         "addLogging")) \o
        Rule(~Truthy(structure.hasErrorHandling),
             Enhancement("code", "Add comprehensive error handling", "high",
                         "addErrorHandling")) \o
        Rule(~Truthy(structure.hasEnvironmentConfig),
             Enhancement("config", "Add environment configuration with dotenv", "medium",
                         "addEnvironmentConfig")) \o
        Rule(~Truthy(structure.hasValidation),
             Enhancement("dependency", "Add input validation with Joi", "medium",
                         "addValidation")) \o
        Rule(~Truthy(structure.hasApiDocumentation),
             Enhancement("file", "Add API documentation with Swagger/OpenAPI", "medium",
                         "addApiDocumentation")) \o
        << Enhancement("config", "Enhance testing configuration with coverage reporting",
                       "medium", "enhanceTestingConfig") >> \o
        getTemplateSpecificImprovements(tmpl)

\* identifyImprovements that offers the testing enhancement only when the
\* project has no tests
identifyImprovementsTestingWhenMissing(tmpl, structure) ==
    LET Rule(condition, enhancement) == IF condition THEN <<enhancement>> ELSE <<>>
    IN  Rule(~Truthy(structure.hasLogging),
             Enhancement("dependency", "Add structured logging with Winston", "high",
                         "addLogging")) \o
        Rule(~Truthy(structure.hasErrorHandling),
             Enhancement("code", "Add comprehensive error handling", "high",
                         "addErrorHandling")) \o
        Rule(~Truthy(structure.hasEnvironmentConfig),
             Enhancement("config", "Add environment configuration with dotenv", "medium",
                         "addEnvironmentConfig")) \o
        Rule((tmpl = "node" \/ tmpl = "full-stack") /\ ~Truthy(structure.hasValidation),
             Enhancement("dependency", "Add input validation with Joi", "medium",
                         "addValidation")) \o
        Rule((tmpl = "node" \/ tmpl = "full-stack") /\ ~Truthy(structure.hasApiDocumentation),
             Enhancement("file", "Add API documentation with Swagger/OpenAPI", "medium",
                         "addApiDocumentation")) \o
        Rule(~Truthy(structure.hasTests),
             Enhancement("config", "Enhance testing configuration with coverage reporting",
                         "medium", "enhanceTestingConfig")) \o
        getTemplateSpecificImprovements(tmpl)

identifyImprovements(tmpl, structure) ==
    (IF ~Truthy(structure.hasLogging)
     THEN << Enhancement("dependency", "Add structured logging with Winston", "high",
                         "addLogging") >>
     ELSE <<>>) \o
    (IF ~Truthy(structure.hasErrorHandling)
     THEN << Enhancement("code", "Add comprehensive error handling", "high",
                         "addErrorHandling") >>
     ELSE <<>>) \o
    (IF ~Truthy(structure.hasEnvironmentConfig)
     THEN << Enhancement("config", "Add environment configuration with dotenv", "medium",
                         "addEnvironmentConfig") >>
     ELSE <<>>) \o
    (IF (tmpl = "node" \/ tmpl = "full-stack") /\ ~Truthy(structure.hasValidation)
     THEN << Enhancement("dependency", "Add input validation with Joi", "medium",
                         "addValidation") >>
     ELSE <<>>) \o
    (IF (tmpl = "node" \/ tmpl = "full-stack") /\ ~Truthy(structure.hasApiDocumentation)
     THEN << Enhancement("file", "Add API documentation with Swagger/OpenAPI", "medium",
                         "addApiDocumentation") >>
     ELSE <<>>) \o
    << Enhancement("config", "Enhance testing configuration with coverage reporting",
                   "medium", "enhanceTestingConfig") >> \o
    getTemplateSpecificImprovements(tmpl)

\* analyze: [error, value]; value is the ProjectAnalysis
NoAnalysis ==
    [files |-> <<>>, dependencies |-> {}, devDependencies |-> {},
     structure |-> [f \in {} |-> JsUndefined], improvements |-> <<>>]

analyze(tmpl, d, pkg) ==
    LET files == getProjectFiles(d, pkg)
        packageJson == getPackageJson(pkg)
        structure == analyzeStructure(d, files, packageJson)
    IN  IF packageJson.error # "none"
        THEN [error |-> packageJson.error, value |-> NoAnalysis]
        ELSE IF structure.error # "none"
        THEN [error |-> structure.error, value |-> NoAnalysis]
        ELSE [error |-> "none",
              value |-> [files |-> files,
                         dependencies |-> ObjectKeys(packageJson, "dependencies"),
                         devDependencies |-> ObjectKeys(packageJson, "devDependencies"),
                         structure |-> structure.value,
                         improvements |-> identifyImprovements(tmpl, structure.value)]]

(***************************************************************************)
(* Enhancement implementations                                             *)
(*                                                                         *)
(* An implementation is the sequence of its file-system operations, in the *)
(* order of the code.  Running it (RunOps) performs them one after the     *)
(* other on [disk, pkg] until one throws.                                  *)
(***************************************************************************)

\* SetEntry with "packageJson[section] = {}" in place of "|| {}"
SetEntryOnFreshSection(obj, section, key, value) ==
    [obj EXCEPT !.sections = Put(obj.sections, section, Put(EmptyMap, key, value))]

\* packageJson[section] = packageJson[section] || {}; packageJson[section][key] = value
SetEntry(obj, section, key, value) ==
    LET old == IF section \in DOMAIN obj.sections THEN obj.sections[section] ELSE EmptyMap
    IN  [obj EXCEPT !.sections = Put(obj.sections, section, Put(old, key, value))]

RECURSIVE SetEntries(_, _)
SetEntries(obj, sets) ==
    IF sets = <<>> THEN obj
    ELSE SetEntries(SetEntry(obj, sets[1][1], sets[1][2], sets[1][3]), Tail(sets))

EditManifest(sets) == [op |-> "editManifest", path |-> "package.json", content |-> "", sets |-> sets]
Mkdir(path) == [op |-> "mkdir", path |-> path, content |-> "", sets |-> <<>>]
Write(path, content) == [op |-> "write", path |-> path, content |-> content, sets |-> <<>>]
UpdateGitignore == [op |-> "gitignore", path |-> ".gitignore", content |-> "", sets |-> <<>>]
UpdateRequirements ==
    [op |-> "requirements", path |-> "requirements.txt", content |-> "", sets |-> <<>>]

\* Bodies of the generated files, shortened to lines that keep what the
\* classifier looks for in them.
LoggerJs == "const winston = require('winston');\nmodule.exports = logger;\n"
ErrorHandlerJs == "class AppError extends Error {}\n  Promise.resolve(fn(req, res, next)).catch(next);\n"
EnvExample == "# Application Configuration\nNODE_ENV=development\nPORT=3000\n"
ValidationJs == "const Joi = require('joi');\nmodule.exports = { validateRequest, schemas };\n"
SwaggerJs == "const swaggerJSDoc = require('swagger-jsdoc');\nmodule.exports = { setupSwagger };\n"
JestConfigJs == "module.exports = {\n  testEnvironment: 'node',\n  collectCoverage: true\n};\n"
PerformanceJs == "import React, { memo, useCallback, useMemo } from 'react';\n"
UseApiJs == "      try {\n          throw new Error(response.status);\n      } catch (err) {\n"
DatabaseJs == "    try {\n    } catch (error) {\n      throw error;\n"
SecurityJs == "  message: 'Too many requests from this IP, please try again later.'\n"
CacheJs == "const NodeCache = require('node-cache');\n"
LoggerPy == "import logging\nimport os\n"
WebPy == "        try:\n"
MypyIni == "[mypy]\npython_version = 3.9\n"
ApiClientJs == "    try {\n        throw new Error(response.status);\n    } catch (error) {\n"

addLogging ==
    << EditManifest(<< <<"dependencies", "winston", "^3.11.0">> >>),
       Mkdir("src/utils"), Mkdir("logs"),
       Write("src/utils/logger.js", LoggerJs) >>

addErrorHandling ==
    << Mkdir("src/utils"), Write("src/utils/errorHandler.js", ErrorHandlerJs) >>

addEnvironmentConfig ==
    << EditManifest(<< <<"dependencies", "dotenv", "^16.3.1">> >>),
       Write(".env.example", EnvExample),
       UpdateGitignore >>

\* addValidation that writes the validation module and leaves the manifest alone
addValidationFileOnly ==
    << Mkdir("src/utils"), Write("src/utils/validation.js", ValidationJs) >>

addValidation ==
    << EditManifest(<< <<"dependencies", "joi", "^17.11.0">> >>),
       Mkdir("src/utils"), Write("src/utils/validation.js", ValidationJs) >>

addApiDocumentation ==
    << EditManifest(<< <<"dependencies", "swagger-ui-express", "^5.0.0">>,
                       <<"dependencies", "swagger-jsdoc", "^6.2.8">> >>),
       Mkdir("src/utils"), Write("src/utils/swagger.js", SwaggerJs) >>

enhanceTestingConfig ==
    << EditManifest(<< <<"scripts", "test:coverage", "jest --coverage">>,
                       <<"scripts", "test:watch", "jest --watch">>,
                       <<"devDependencies", "@types/jest", "^29.5.2">>,
                       <<"devDependencies", "supertest", "^6.3.3">> >>),
       Write("jest.config.js", JestConfigJs) >>

addReactPerformanceUtils ==
    << Mkdir("src/utils"), Write("src/utils/performance.js", PerformanceJs) >>

addReactRouter ==
    << EditManifest(<< <<"dependencies", "react-router-dom", "^6.8.0">> >>) >>

addReactHooks ==
    << Mkdir("src/hooks"), Write("src/hooks/useApi.js", UseApiJs) >>

addDatabaseUtils ==
    << Mkdir("src/utils"), Write("src/utils/database.js", DatabaseJs) >>

addSecurityMiddleware ==
    << EditManifest(<< <<"dependencies", "helmet", "^7.1.0">>,
                       <<"dependencies", "cors", "^2.8.5">>,
                       <<"dependencies", "express-rate-limit", "^7.1.5">> >>),
       Mkdir("src/middleware"), Write("src/middleware/security.js", SecurityJs) >>

addRateLimitingAndCaching ==
    << EditManifest(<< <<"dependencies", "node-cache", "^5.1.2">> >>),
       Mkdir("src/utils"), Write("src/utils/cache.js", CacheJs) >>

addPythonLogging ==
    << Mkdir("src/utils"), Write("src/utils/logger.py", LoggerPy) >>

addPythonWebUtils ==
    << Mkdir("src/utils"), Write("src/utils/web.py", WebPy) >>

addPythonTypeHints ==
    << UpdateRequirements, Write("mypy.ini", MypyIni) >>

addApiClientUtils ==
    << Mkdir("client/src/utils"), Write("client/src/utils/apiClient.js", ApiClientJs) >>

ImplementationNames ==
    {"addLogging", "addErrorHandling", "addEnvironmentConfig", "addValidation",
     "addApiDocumentation", "enhanceTestingConfig", "addReactPerformanceUtils",
     "addReactRouter", "addReactHooks", "addDatabaseUtils", "addSecurityMiddleware",
     "addRateLimitingAndCaching", "addPythonLogging", "addPythonWebUtils",
     "addPythonTypeHints", "addApiClientUtils"}

\* the operations of the method an Enhancement's implementation closure calls
Implementation(name) ==
    CASE name = "addLogging" -> addLogging
      [] name = "addErrorHandling" -> addErrorHandling
      [] name = "addEnvironmentConfig" -> addEnvironmentConfig
      [] name = "addValidation" -> addValidation
      [] name = "addApiDocumentation" -> addApiDocumentation
      [] name = "enhanceTestingConfig" -> enhanceTestingConfig
      [] name = "addReactPerformanceUtils" -> addReactPerformanceUtils
      [] name = "addReactRouter" -> addReactRouter
      [] name = "addReactHooks" -> addReactHooks
      [] name = "addDatabaseUtils" -> addDatabaseUtils
      [] name = "addSecurityMiddleware" -> addSecurityMiddleware
      [] name = "addRateLimitingAndCaching" -> addRateLimitingAndCaching
      [] name = "addPythonLogging" -> addPythonLogging
      [] name = "addPythonWebUtils" -> addPythonWebUtils
      [] name = "addPythonTypeHints" -> addPythonTypeHints
      [] name = "addApiClientUtils" -> addApiClientUtils

(***************************************************************************)
(* Running the operations on the file system fs = [disk, pkg]              *)
(***************************************************************************)

Ok(fs) == [disk |-> fs.disk, pkg |-> fs.pkg, error |-> "none"]
Throw(fs, code) == [disk |-> fs.disk, pkg |-> fs.pkg, error |-> code]

\* writeFileSync(path, content, 'utf8') for a path other than package.json
writeFileSync(fs, path, content) ==
    LET parent == EntryKind(fs.disk, fs.pkg, Dirname(path))
        target == EntryKind(fs.disk, fs.pkg, path)
    IN  IF parent = "none" \/ parent = "dangling" THEN Throw(fs, "ENOENT")
        ELSE IF parent # "dir" THEN Throw(fs, "ENOTDIR")
        ELSE IF target = "dir" THEN Throw(fs, "EISDIR")
        ELSE IF target = "unreadable" THEN Throw(fs, "EACCES")
        ELSE Ok([fs EXCEPT !.disk = Put(fs.disk, path, File(content))])

\* readFileSync(path, 'utf8') of a path existsSync found: [error, value]
readFileSync(fs, path) ==
    LET kind == EntryKind(fs.disk, fs.pkg, path)
    IN  IF kind = "file" THEN [error |-> "none", value |-> fs.disk[path].content]
        ELSE [error |-> IF kind = "dir" THEN "EISDIR" ELSE "EACCES", value |-> ""]

\* if (!existsSync(dir)) mkdirSync(dir, { recursive: true })
mkdirIfMissing(fs, dir) ==
    IF existsSync(fs.disk, fs.pkg, dir) THEN Ok(fs)
    ELSE IF \E a \in Ancestors(dir) : EntryKind(fs.disk, fs.pkg, a) \notin {"none", "dir"}
    THEN Throw(fs, IF EntryKind(fs.disk, fs.pkg, dir) = "dangling" THEN "EEXIST" ELSE "ENOTDIR")
    ELSE Ok([fs EXCEPT !.disk =
                [p \in DOMAIN fs.disk \cup Ancestors(dir) |->
                    IF p \in DOMAIN fs.disk THEN fs.disk[p] ELSE Dir]])

\* editManifest on the manifest as it was read when the run started, not re-read
editManifestStale(fs, sets) ==
    LET packageJson == ReadManifest(initial.pkg)
    IN  IF packageJson.error # "none" THEN Throw(fs, packageJson.error)
        ELSE Ok([fs EXCEPT !.pkg = StringifyManifest(SetEntries(packageJson.value, sets))])

\* the manifest read-modify-write every manifest-editing implementation starts with
editManifest(fs, sets) ==
    LET packageJson == ReadManifest(fs.pkg)
    IN  IF packageJson.error # "none" THEN Throw(fs, packageJson.error)
        ELSE Ok([fs EXCEPT !.pkg = StringifyManifest(SetEntries(packageJson.value, sets))])

\* updateGitignore without the includes('.env') test
updateGitignoreAlwaysAppends(fs) ==
    IF existsSync(fs.disk, fs.pkg, ".gitignore")
    THEN LET gitignoreContent == readFileSync(fs, ".gitignore")
         IN  IF gitignoreContent.error # "none" THEN Throw(fs, gitignoreContent.error)
             ELSE writeFileSync(fs, ".gitignore", gitignoreContent.value \o "\n.env\n")
    ELSE writeFileSync(fs, ".gitignore", ".env\nnode_modules/\nlogs/\n")

\* addEnvironmentConfig's "Add .env to .gitignore if it exists"
updateGitignore(fs) ==
    IF existsSync(fs.disk, fs.pkg, ".gitignore")
    THEN LET gitignoreContent == readFileSync(fs, ".gitignore")
         IN  IF gitignoreContent.error # "none" THEN Throw(fs, gitignoreContent.error)
             ELSE IF ~Includes(gitignoreContent.value, ".env")
             THEN writeFileSync(fs, ".gitignore", gitignoreContent.value \o "\n.env\n")
             ELSE Ok(fs)
    ELSE writeFileSync(fs, ".gitignore", ".env\nnode_modules/\nlogs/\n")

\* addPythonTypeHints' requirements.txt update
updateRequirements(fs) ==
    LET read == IF existsSync(fs.disk, fs.pkg, "requirements.txt")
                THEN readFileSync(fs, "requirements.txt")
                ELSE [error |-> "none", value |-> ""]
        requirements == IF ~Includes(read.value, "mypy")
                        THEN read.value \o "\nmypy==1.7.1\n"
                        ELSE read.value
    IN  IF read.error # "none" THEN Throw(fs, read.error)
        ELSE writeFileSync(fs, "requirements.txt", requirements)

RunOp(fs, o) ==
    CASE o.op = "editManifest" -> editManifest(fs, o.sets)
      [] o.op = "mkdir" -> mkdirIfMissing(fs, o.path)
      [] o.op = "write" -> writeFileSync(fs, o.path, o.content)
      [] o.op = "gitignore" -> updateGitignore(fs)
      [] o.op = "requirements" -> updateRequirements(fs)

\* TRUE when o performs a write system call on fs (a mkdirIfMissing of a
\* directory that exists performs none)
Writes(fs, o) == o.op # "mkdir" \/ ~existsSync(fs.disk, fs.pkg, o.path)

\* Runs ops in order until one throws.  fault > 0 makes the fault-th writing
\* operation fail with an I/O error (EIO) before it changes anything; 0 is
\* a run on a healthy disk.
RECURSIVE RunOps(_, _, _)
RunOps(fs, ops, fault) ==
    IF ops = <<>> THEN Ok(fs)
    ELSE IF fault = 1 /\ Writes(fs, Head(ops)) THEN Throw(fs, "EIO")
    ELSE LET r == RunOp(fs, Head(ops))
         IN  IF r.error # "none" THEN r
             ELSE RunOps([disk |-> r.disk, pkg |-> r.pkg], Tail(ops),
                         IF fault > 0 /\ Writes(fs, Head(ops)) THEN fault - 1 ELSE fault)

\* await improvement.implementation()
Invoke(fs, improvement, fault) ==
    RunOps(fs, Implementation(improvement.implementation), fault)

(***************************************************************************)
(* The summary report                                                      *)
(***************************************************************************)

SummaryItem(imp) == "- **" \o imp.description \o "** (" \o imp.priority \o " priority)"

\* improvements.map(SummaryItem).join('\n')
RECURSIVE JoinItems(_)
JoinItems(improvements) ==
    IF improvements = <<>> THEN ""
    ELSE IF Len(improvements) = 1 THEN SummaryItem(improvements[1])
    ELSE SummaryItem(improvements[1]) \o "\n" \o JoinItems(Tail(improvements))

PresentOrMissing(v) == IF Truthy(v) THEN "Present" ELSE "Missing"

DependenciesLine(a) ==
    "- **Dependencies**: " \o ToString(Cardinality(a.dependencies)) \o " production dependencies\n"

DevDependenciesLine(a) ==
    "- **Dev Dependencies**: " \o ToString(Cardinality(a.devDependencies))
        \o " development dependencies\n"

\* the text of AI_ENHANCEMENTS.md
enhancementSummary(tmpl, a) ==
    "# AI Enhancement Summary\n\n## Applied Enhancements\n\n"
    \o JoinItems(a.improvements)
    \o "\n\n## Project Analysis\n\n"
    \o "- **Template**: " \o tmpl \o "\n"
    \o DependenciesLine(a)
    \o DevDependenciesLine(a)
    \o "- **Files**: " \o ToString(Len(a.files)) \o " files analyzed\n"
    \o "\n## Structure Analysis\n\n"
    \o "- Tests: " \o PresentOrMissing(a.structure.hasTests) \o "\n"
    \o "- Linting: " \o PresentOrMissing(a.structure.hasLinting) \o "\n"
    \o "- Formatting: " \o PresentOrMissing(a.structure.hasFormatting) \o "\n"
    \o "- TypeScript: " \o PresentOrMissing(a.structure.hasTypeScript) \o "\n"
    \o "- Documentation: " \o PresentOrMissing(a.structure.hasDocumentation) \o "\n"
    \o "- Error Handling: " \o PresentOrMissing(a.structure.hasErrorHandling) \o "\n"
    \o "- Environment Config: " \o PresentOrMissing(a.structure.hasEnvironmentConfig) \o "\n"
    \o "- Logging: " \o PresentOrMissing(a.structure.hasLogging) \o "\n"
    \o "- Validation: " \o PresentOrMissing(a.structure.hasValidation) \o "\n"
    \o "- API Documentation: " \o PresentOrMissing(a.structure.hasApiDocumentation) \o "\n"

(***************************************************************************)
(* Projects enhanceWithAI is called on                                     *)
(***************************************************************************)

Templates == {"node", "react", "python", "full-stack"}

Manifest(indent, fields, sections) ==
    [kind |-> "json", indent |-> indent, obj |-> [fields |-> fields, sections |-> sections]]

\* package.json of "should handle errors gracefully during enhancement"
MinimalManifest ==
    Manifest(2, ("name" :> "test-project") @@ ("version" :> "1.0.0"), EmptyMap)

\* package.json of "should successfully enhance a basic Node.js project"
NodeManifest ==
    Manifest(2, ("name" :> "test-project") @@ ("version" :> "1.0.0"),
             ("scripts" :> (("start" :> "node src/index.js") @@ ("test" :> "jest")))
             @@ ("dependencies" :> EmptyMap)
             @@ ("devDependencies" :> ("jest" :> "^29.7.0")))

\* a hand-written package.json of a project that has its tooling
EquippedManifest ==
    Manifest(4, ("name" :> "app") @@ ("version" :> "0.3.0") @@ ("license" :> "MIT"),
             ("dependencies" :> (("express" :> "^4.18.2") @@ ("winston" :> "^3.0.0")
                                 @@ ("joi" :> "^17.0.0")))
             @@ ("devDependencies" :> (("eslint" :> "^8.0.0") @@ ("prettier" :> "^3.0.0")
                                       @@ ("typescript" :> "^5.0.0") @@ ("mocha" :> "^10.0.0"))))

\* a package.json whose pino dependency has the empty version range, which npm
\* reads as "*"
EmptyRangeManifest ==
    Manifest(2, ("name" :> "svc") @@ ("version" :> "1.0.0"),
             ("dependencies" :> (("express" :> "^4.18.2") @@ ("pino" :> ""))))

BasicTree ==
    ("src" :> Dir) @@ ("src/index.js" :> File("console.log(\"Hello World\");"))
    @@ ("README.md" :> File("# Test Project"))

GuardedTree ==
    ("src" :> Dir) @@ ("src/index.js" :> File("try { run(); } catch (e) { throw e; }"))
    @@ (".gitignore" :> File("node_modules/\n")) @@ ("README.md" :> File("# App"))

PythonTree ==
    ("main.py" :> File("print('hi')\n")) @@ ("requirements.txt" :> File("flask==3.0.0\n"))
    @@ ("Readme.rst" :> File("App"))

LockedTree ==
    ("src" :> Dir) @@ ("src/index.js" :> File("console.log(1);"))
    @@ ("src/secret.js" :> Unreadable)

LinkedTree ==
    ("src" :> Dir) @@ ("src/app.ts" :> File("export const x = 1;"))
    @@ ("src/stale.js" :> Dangling)
    @@ ("node_modules" :> Dir) @@ ("node_modules/pkg" :> Dir)
    @@ ("node_modules/pkg/index.js" :> File("try {} catch (e) {}"))
    @@ (".git" :> Dir) @@ (".git/config" :> File("[core]\n"))

EquippedTree ==
    (".env" :> File("PORT=3000\n")) @@ (".gitignore" :> File(".env\n"))
    @@ (".eslintrc.js" :> File("module.exports = {};")) @@ (".prettierrc" :> File("{}"))
    @@ ("docs" :> Dir) @@ ("docs/openapi.yaml" :> File("openapi: 3.0.0\n"))
    @@ ("requirements.txt" :> File("mypy==1.0.0\n"))
    @@ ("src" :> Dir) @@ ("src/logger.js" :> File("module.exports = console;"))
    @@ ("test" :> Dir) @@ ("test/app.test.js" :> File("it('works', () => {});"))

\* a workspace with dependency caches and a repository below the first level
NestedTree ==
    ("client" :> Dir) @@ ("client/node_modules" :> Dir)
    @@ ("client/node_modules/react" :> Dir)
    @@ ("client/node_modules/react/index.js" :> File("module.exports = {};"))
    @@ ("client/src" :> Dir) @@ ("client/src/App.jsx" :> File("export default App;"))
    @@ ("server" :> Dir) @@ ("server/.git" :> Dir)
    @@ ("server/.git/HEAD" :> File("ref: refs/heads/main\n"))
    @@ ("server/index.js" :> File("console.log(1);"))
    @@ ("docs" :> Dir) @@ ("docs/node_modules.txt" :> File("notes"))
    @@ (".gitignore" :> File("node_modules/\n"))

\* the options of a generateScaffold call that was never made
NoOptions == [aiEnhanced |-> FALSE, deployTarget |-> "", withDemo |-> FALSE]

Project(tree, manifest) == [disk |-> tree, pkg |-> manifest]

Projects ==
    { Project(BasicTree, NodeManifest), Project(BasicTree, MinimalManifest),
      Project(BasicTree, NoFile), Project(BasicTree, GarbageFile),
      Project(BasicTree, EmptyRangeManifest),
      Project(GuardedTree, NodeManifest), Project(GuardedTree, EquippedManifest),
      Project(PythonTree, NoFile),
      Project(LockedTree, NodeManifest), Project(LockedTree, NoFile),
      Project(LinkedTree, MinimalManifest),
      Project(NestedTree, NodeManifest),
      Project(EquippedTree, EquippedManifest), Project(EquippedTree, NoFile) }

(***************************************************************************)
(* enhanceWithAI                                                           *)
(***************************************************************************)

Current == [disk |-> disk, pkg |-> packageJsonFile]

\* PriorityFilter with the "high" and "medium" tests exchanged
PriorityFilterSwapped(improvements, priority) ==
    SelectSeq(improvements,
              LAMBDA imp : imp.priority = (CASE priority = "high" -> "medium"
                                             [] priority = "medium" -> "high"
                                             [] OTHER -> priority))

\* PriorityFilter that returns the matching improvements last to first
PriorityFilterReversed(improvements, priority) ==
    LET kept == SelectSeq(improvements, LAMBDA imp : imp.priority = priority)
    IN  [i \in 1..Len(kept) |-> kept[Len(kept) + 1 - i]]

\* PriorityFilter whose medium test is "not high"
PriorityFilterNotHigh(improvements, priority) ==
    SelectSeq(improvements,
              LAMBDA imp : IF priority = "medium" THEN imp.priority # "high"
                           ELSE imp.priority = priority)

\* analysis.improvements.filter(imp => imp.priority === priority)
PriorityFilter(improvements, priority) ==
    SelectSeq(improvements, LAMBDA imp : imp.priority = priority)

\* a catch block that ends with "throw error"
CatchRethrows == "rejected"

\* what the promise of enhanceWithAI does once the catch block has run
CatchOutcome == "resolved"

\* a catch block that restores the project to what it was before the run
CaughtProjectRolledBack(fs) == initial

\* the project the catch block leaves behind: it reports, it undoes nothing
CaughtProject(fs) == fs

Init ==
    /\ template \in Templates
    /\ \E project \in Projects :
          /\ disk = project.disk
          /\ packageJsonFile = project.pkg
          /\ initial = project
    /\ pc = "idle"
    /\ analysis = NoAnalysis
    /\ queue = <<>>
    /\ invoked = <<>>
    /\ error = "none"
    /\ stage = "none"
    /\ result = "none"
    /\ runs = 0
    /\ faults = 0
    /\ step = "direct"
    /\ rootExists = TRUE
    /\ templatesDir = EmptyMap
    /\ options = NoOptions
    /\ githubToken = FALSE
    /\ calls = <<>>
    /\ outcome = "none"
    /\ scaffolds = 0
    /\ installs = <<>>

\* a caller awaits enhanceWithAI(projectRoot, template)
EnhanceWithAI ==
    /\ pc = "idle"
    /\ runs < MaxRuns
    /\ runs' = runs + 1
    /\ pc' = "analyze"
    /\ initial' = Current
    /\ analysis' = NoAnalysis
    /\ queue' = <<>>
    /\ invoked' = <<>>
    /\ error' = "none"
    /\ stage' = "none"
    /\ result' = "pending"
    /\ UNCHANGED <<template, disk, packageJsonFile, faults,
                   scaffoldVars>>

\* analyzer.analyze() and the filter of the high-priority improvements
Analyze ==
    /\ pc = "analyze"
    /\ LET a == analyze(template, disk, packageJsonFile)
       IN  IF a.error # "none"
           THEN /\ pc' = "caught"
                /\ error' = a.error
                /\ stage' = "analyze"
                /\ UNCHANGED <<analysis, queue>>
           ELSE /\ pc' = "high"
                /\ analysis' = a.value
                /\ queue' = PriorityFilter(a.value.improvements, "high")
                /\ UNCHANGED <<error, stage>>
    /\ UNCHANGED <<template, disk, packageJsonFile, invoked, result, runs, faults, initial,
                   scaffoldVars>>

\* one iteration of the for-loop over the improvements of a priority
Apply(priority) ==
    /\ pc = priority
    /\ queue # <<>>
    /\ LET improvement == Head(queue)
           ops == Implementation(improvement.implementation)
       IN  \E fault \in (IF faults < MaxFaults THEN 0..Len(ops) ELSE {0}) :
              LET r == Invoke(Current, improvement, fault)
              IN  /\ fault > 0 => r.error = "EIO"
                  /\ invoked' = Append(invoked, improvement)
                  /\ disk' = r.disk
                  /\ packageJsonFile' = r.pkg
                  /\ faults' = IF fault > 0 THEN faults + 1 ELSE faults
                  /\ IF r.error # "none"
                     THEN /\ pc' = "caught"
                          /\ error' = r.error
                          /\ stage' = "apply"
                          /\ UNCHANGED queue
                     ELSE /\ queue' = Tail(queue)
                          /\ UNCHANGED <<pc, error, stage>>
    /\ UNCHANGED <<template, analysis, result, runs, initial,
                   scaffoldVars>>

\* the end of one for-loop and the filter that starts the next
Filter(done, next) ==
    /\ pc = done
    /\ queue = <<>>
    /\ pc' = next
    /\ queue' = PriorityFilter(analysis.improvements, next)
    /\ UNCHANGED <<template, disk, packageJsonFile, analysis, invoked, error, stage,
                   result, runs, faults, initial,
                   scaffoldVars>>

ApplyHigh == Apply("high")
FilterMedium == Filter("high", "medium")
ApplyMedium == Apply("medium")
FilterLow == Filter("medium", "low")
ApplyLow == Apply("low")

\* "Create enhancement summary", then aiSpinner.succeed and the return
WriteSummary ==
    /\ pc = "low"
    /\ queue = <<>>
    /\ \E fault \in (IF faults < MaxFaults THEN 0..1 ELSE {0}) :
          LET r == RunOps(Current,
                          << Write("AI_ENHANCEMENTS.md", enhancementSummary(template, analysis)) >>,
                          fault)
          IN  /\ disk' = r.disk
              /\ packageJsonFile' = r.pkg
              /\ faults' = IF fault > 0 THEN faults + 1 ELSE faults
              /\ IF r.error # "none"
                 THEN /\ pc' = "caught"
                      /\ error' = r.error
                      /\ stage' = "summary"
                      /\ UNCHANGED result
                 ELSE /\ pc' = "idle"
                      /\ result' = "resolved"
                      /\ UNCHANGED <<error, stage>>
    /\ UNCHANGED <<template, analysis, queue, invoked, runs, initial,
                   scaffoldVars>>

\* the catch block: aiSpinner.fail, two console.log, no rethrow
Catch ==
    /\ pc = "caught"
    /\ pc' = "idle"
    /\ result' = CatchOutcome
    /\ disk' = CaughtProject(Current).disk
    /\ packageJsonFile' = CaughtProject(Current).pkg
    /\ UNCHANGED <<template, analysis, queue, invoked, error, stage, runs, faults, initial,
                   scaffoldVars>>

Next ==
    \/ EnhanceWithAI
    \/ Analyze
    \/ ApplyHigh
    \/ FilterMedium
    \/ ApplyMedium
    \/ FilterLow
    \/ ApplyLow
    \/ WriteSummary
    \/ Catch

Spec == Init /\ [][Next]_vars

(***************************************************************************)
(* generateScaffold (src/generators/scaffold.ts): the files it writes      *)
(***************************************************************************)

\* the file system of a result that did not throw
Fs(r) == [disk |-> r.disk, pkg |-> r.pkg]

\* a package.json below the project root, kept parsed like the one at the root
ManifestEntry(file) == [kind |-> "file", content |-> "", manifest |-> file]

\* copyFileSync(src, dest) of a template file
copyFileSync(fs, tmpl, src, dest) ==
    LET kind == EntryKind(tmpl.disk, tmpl.pkg, src)
    IN  IF kind = "dangling" THEN Throw(fs, "ENOENT")
        ELSE IF kind = "unreadable" THEN Throw(fs, "EACCES")
        ELSE IF src = "package.json"
        THEN IF dest = "package.json"
             THEN Ok([fs EXCEPT !.pkg = tmpl.pkg])
             ELSE Ok([fs EXCEPT !.disk = Put(fs.disk, dest, ManifestEntry(tmpl.pkg))])
        ELSE Ok([fs EXCEPT !.disk = Put(fs.disk, dest, tmpl.disk[src])])

RECURSIVE copyRecursive(_, _, _, _)
RECURSIVE CopyEntries(_, _, _, _, _)

\* the for-loop of copyRecursive over the entries left
CopyEntries(fs, tmpl, src, dest, entries) ==
    IF entries = <<>> THEN Ok(fs)
    ELSE LET r == copyRecursive(fs, tmpl, Join(src, Head(entries)), Join(dest, Head(entries)))
         IN  IF r.error # "none" THEN r
             ELSE CopyEntries(Fs(r), tmpl, src, dest, Tail(entries))

\* copyRecursive(src, dest): src is a path of the template directory tmpl
copyRecursive(fs, tmpl, src, dest) ==
    IF EntryKind(tmpl.disk, tmpl.pkg, src) = "dir"
    THEN LET made == mkdirIfMissing(fs, dest)
         IN  IF made.error # "none" THEN made
             ELSE CopyEntries(Fs(made), tmpl, src, dest,
                              readdirSync(tmpl.disk, tmpl.pkg, src))
    ELSE LET made == mkdirIfMissing(fs, Dirname(dest))
         IN  IF made.error # "none" THEN made
             ELSE copyFileSync(Fs(made), tmpl, src, dest)

\* content.split(pattern).join(value)
RECURSIVE SplitJoin(_, _, _)
SplitJoin(content, pattern, value) ==
    LET found == {i \in 1..(Len(content) - Len(pattern) + 1) :
                     SubSeq(content, i, i + Len(pattern) - 1) = pattern}
    IN  IF found = {} THEN content
        ELSE LET first == CHOOSE i \in found : \A j \in found : i <= j
             IN  SubSeq(content, 1, first - 1) \o value
                 \o SplitJoin(SubSeq(content, first + Len(pattern), Len(content)),
                              pattern, value)

\* the loop over Object.entries(placeholders): projectName, then port
ReplaceIn(content, placeholders) ==
    SplitJoin(SplitJoin(content, "{{projectName}}", placeholders.projectName),
              "{{port}}", placeholders.port)

\* the same replacement in the text of a package.json: in every string value
ReplaceInManifest(file, placeholders) ==
    IF file.kind # "json" THEN file
    ELSE [file EXCEPT
            !.obj.fields = [k \in DOMAIN @ |-> ReplaceIn(@[k], placeholders)],
            !.obj.sections = [s \in DOMAIN @ |->
                                 [k \in DOMAIN @[s] |-> ReplaceIn(@[s][k], placeholders)]]]

\* replacePlaceholders(projectRoot, placeholders): every readable file outside
\* node_modules is rewritten when the replacement changes it
replacePlaceholders(fs, placeholders) ==
    Ok([disk |-> [p \in DOMAIN fs.disk |->
                     LET entry == fs.disk[p]
                     IN  IF \/ entry.kind # "file"
                            \/ \E q \in Ancestors(p) : Basename(q) = "node_modules"
                         THEN entry
                         ELSE IF "manifest" \in DOMAIN entry
                         THEN ManifestEntry(ReplaceInManifest(entry.manifest, placeholders))
                         ELSE File(ReplaceIn(entry.content, placeholders))],
        pkg |-> ReplaceInManifest(fs.pkg, placeholders)])

\* The bodies of the files generateScaffold writes are shortened to the lines
\* that depend on the template and to the placeholders they hold.
writeCiWorkflow(tmpl) ==
    << Mkdir(".github/workflows"),
       Write(".github/workflows/ci.yml",
             IF tmpl = "python" THEN "name: CI (Python)\n        run: pytest\n"
             ELSE IF tmpl = "full-stack" THEN "name: CI (Full Stack)\n        run: npm test\n"
             ELSE "name: CI (Node)\n        run: npm test\n") >>

writeDependabotConfig(tmpl) ==
    << Mkdir(".github"),
       Write(".github/dependabot.yml",
             "version: 2\nupdates:\n  - package-ecosystem: "
                 \o (IF tmpl = "python" THEN "pip" ELSE "npm") \o "\n") >>

writeCodeQLConfig(tmpl) ==
    << Mkdir(".github"),
       Write(".github/codeql.yml",
             "name: \"CodeQL\"\n        language: ['"
                 \o (IF tmpl = "python" THEN "python" ELSE "javascript") \o "']\n") >>

\* writeDeploymentConfig and the writer it switches to: writeVercelConfig,
\* writeNetlifyConfig, writeAWSConfig, writeGCPConfig, vercel by default
writeDeploymentConfig(deployTarget, tmpl) ==
    LET writeVercelConfig ==
            << Write("vercel.json",
                     IF tmpl = "python"
                     THEN "{\n  \"version\": 2,\n  \"functions\": {\n    \"src/main.py\": {}\n  }\n}"
                     ELSE IF tmpl = "full-stack"
                     THEN "{\n  \"version\": 2,\n  \"builds\": [\n    { \"src\": \"client/package.json\" }\n  ]\n}"
                     ELSE "{\n  \"version\": 2,\n  \"builds\": [\n    { \"src\": \"package.json\" }\n  ]\n}") >>
        writeNetlifyConfig ==
            << Write("netlify.toml",
                     IF tmpl = "python"
                     THEN "[build]\n  command = \"pip install -r requirements.txt\"\n"
                     ELSE IF tmpl = "full-stack"
                     THEN "[build]\n  command = \"npm run build\"\n  publish = \"client/build\"\n"
                     ELSE "[build]\n  command = \"npm run build\"\n  publish = \"dist\"\n") >>
        writeAWSConfig ==
            << Write("serverless.yml",
                     "{\n  \"service\": \"{{projectName}}\",\n  \"provider\": {\n    \"runtime\": \""
                         \o (IF tmpl = "python" THEN "python3.9" ELSE "nodejs18.x")
                         \o "\"\n  }\n}") >>
        writeGCPConfig ==
            << Write("app.yaml",
                     IF tmpl = "python"
                     THEN "runtime: python39\nentrypoint: python src/main.py\n"
                     ELSE "runtime: nodejs18\nentrypoint: node dist/index.js\n") >>
    IN  CASE deployTarget = "vercel" -> writeVercelConfig
          [] deployTarget = "netlify" -> writeNetlifyConfig
          [] deployTarget = "aws" -> writeAWSConfig
          [] deployTarget = "gcp" -> writeGCPConfig
          [] OTHER -> writeVercelConfig

\* addDemoApp: the files it writes, in order; a write that throws ends it, the
\* catch block reports and goes on
addDemoApp(fs, tmpl) ==
    LET files ==
            CASE tmpl = "node" ->
                    << Write("src/demo.js",
                             "const express = require('express');\nconst port = process.env.PORT || 3000;\n") >>
              [] tmpl = "react" ->
                    << Write("src/components/Demo.jsx",
                             "import React, { useState, useEffect } from 'react';\n      .catch(err => {\n") >>
              [] tmpl = "python" ->
                    << Write("src/demo.py",
                             "from flask import Flask, jsonify, request\napp = Flask(__name__)\n") >>
              [] tmpl = "full-stack" ->
                    << Write("server/src/index.js",
                             "  res.json({ message: 'Hello from the {{projectName}} API!' });\n"),
                       Write("client/src/App.jsx",
                             "import './App.css';\n    try {\n    } catch (err) {\n        <h1>{{projectName}}</h1>\n"),
                       Write("client/src/App.css",
                             "/* App.css */\n.App {\n  max-width: 1200px;\n}\n") >>
              [] OTHER -> <<>>
    IN  Ok(Fs(RunOps(fs, files, 0)))

\* the read-modify-write of server/package.json in the full-stack branch
editServerPackageJson(fs) ==
    LET path == "server/package.json"
    IN  IF EntryKind(fs.disk, fs.pkg, path) \in {"none", "dangling"} THEN Throw(fs, "ENOENT")
        ELSE IF EntryKind(fs.disk, fs.pkg, path) = "dir" THEN Throw(fs, "EISDIR")
        ELSE IF EntryKind(fs.disk, fs.pkg, path) = "unreadable" THEN Throw(fs, "EACCES")
        ELSE IF "manifest" \notin DOMAIN fs.disk[path] THEN Throw(fs, "SyntaxError")
        ELSE LET serverPackageJson == ReadManifest(fs.disk[path].manifest)
             IN  IF serverPackageJson.error # "none" THEN Throw(fs, serverPackageJson.error)
                 ELSE Ok([fs EXCEPT !.disk = Put(fs.disk, path,
                            ManifestEntry(StringifyManifest(
                                SetEntry(serverPackageJson.value, "dependencies",
                                         "express", "^4.18.2"))))])

(***************************************************************************)
(* generateScaffold: the template checks and the generation of the files   *)
(***************************************************************************)

\* the projectName argument (testProjectName of the tests)
ProjectName == "test-project"

\* the message of the Error thrown when projectRoot exists
AlreadyExists(projectName) == "Directory " \o projectName \o " already exists."

\* the checks made before mkdirSync(projectRoot): the message of the Error
\* they throw, "none" when the templates needed are there
templateError(dirs, tmpl) ==
    IF tmpl = "full-stack"
    THEN IF "node" \notin DOMAIN dirs \/ "react" \notin DOMAIN dirs
         THEN "Full-stack template requires both \"node\" and \"react\" templates."
         ELSE "none"
    ELSE IF tmpl \notin DOMAIN dirs
         THEN "Template '" \o tmpl \o "' not found at /cwd/templates/" \o tmpl
         ELSE "none"

\* the project directory right after mkdirSync(projectRoot)
EmptyProject == [disk |-> [p \in {} |-> Dir], pkg |-> NoFile]

\* everything generateScaffold writes between mkdirSync(projectRoot) and the
\* first installation, in the full-stack branch or the single-template one:
\* [disk, pkg, error].  The statements run in order and one that throws ends
\* the generation.
generateFiles(dirs, projectName, tmpl, opts) ==
    LET Copy(from, dest) == [stmt |-> "copyRecursive", from |-> from, dest |-> dest]
        Replace(port) == [stmt |-> "replacePlaceholders", port |-> port]
        Run(ops) == [stmt |-> "write", ops |-> ops]
        statements ==
            (IF tmpl = "full-stack"
             THEN (IF "full-stack" \in DOMAIN dirs THEN << Copy("full-stack", "") >> ELSE <<>>)
                  \o << Copy("node", "server"), Copy("react", "client"), Replace("3000"),
                        [stmt |-> "editServerPackageJson"] >>
             ELSE << Copy(tmpl, ""), Replace("3000") >>)
            \o << Run(writeCiWorkflow(tmpl) \o writeDependabotConfig(tmpl)
                      \o writeCodeQLConfig(tmpl)),
                  Run(writeDeploymentConfig(opts.deployTarget, tmpl)) >>
            \o (IF opts.withDemo THEN << [stmt |-> "addDemoApp"], Replace("3001") >>
                ELSE <<>>)
        Statement(fs, s) ==
            CASE s.stmt = "copyRecursive" -> copyRecursive(fs, dirs[s.from], "", s.dest)
              [] s.stmt = "replacePlaceholders" ->
                    replacePlaceholders(fs, [projectName |-> projectName, port |-> s.port])
              [] s.stmt = "editServerPackageJson" -> editServerPackageJson(fs)
              [] s.stmt = "write" -> RunOps(fs, s.ops, 0)
              [] s.stmt = "addDemoApp" -> addDemoApp(fs, tmpl)
        RECURSIVE Statements(_, _)
        Continue(r, rest) == IF r.error # "none" THEN r ELSE Statements(Fs(r), rest)
        Statements(fs, rest) ==
            IF rest = <<>> THEN Ok(fs)
            ELSE Continue(Statement(fs, Head(rest)), Tail(rest))
    IN  Statements(EmptyProject, statements)

(***************************************************************************)
(* generateScaffold: the steps                                             *)
(* execa, simple-git and octokit are the boundary the tests mock: the      *)
(* model records the calls made to them and lets each succeed or fail.     *)
(***************************************************************************)

enhancerVars == <<template, disk, packageJsonFile, pc, analysis, queue, invoked,
                  error, stage, result, runs, faults, initial>>

\* a call that resolved, and the same call rejected
Call(api, arg, cwd) == [api |-> api, arg |-> arg, cwd |-> cwd, rejected |-> FALSE]
Rejected(call) == [call EXCEPT !.rejected = TRUE]

\* the directories below projectRoot the installation steps run in, in order
InstallDirs(tmpl) ==
    IF tmpl = "full-stack" THEN <<"", "server", "client">> ELSE <<"">>

CommitMessage == "chore: initial commit via stackstart"

\* the enhancement called whatever aiEnhanced says
AfterGithubAlways(opts) == "enhance"

\* if (aiEnhanced) ... else the final console.log
AfterGithub(opts) == IF opts.aiEnhanced THEN "enhance" ELSE "done"

\* if (process.env.GITHUB_TOKEN) ...
AfterGit(token, opts) == IF token THEN "github" ELSE AfterGithub(opts)

\* prepareProject without the existence check: the files are generated over
\* whatever is there
prepareProjectUnchecked(exists, fs, dirs, projectName, tmpl, opts) ==
    IF templateError(dirs, tmpl) # "none"
    THEN [exists |-> exists, disk |-> fs.disk, pkg |-> fs.pkg,
          error |-> templateError(dirs, tmpl)]
    ELSE LET generated == generateFiles(dirs, projectName, tmpl, opts)
         IN  [exists |-> TRUE, disk |-> generated.disk, pkg |-> generated.pkg,
              error |-> generated.error]

\* prepareProject with mkdirSync(projectRoot) ahead of the template checks
prepareProjectMkdirFirst(exists, fs, dirs, projectName, tmpl, opts) ==
    IF exists
    THEN [exists |-> TRUE, disk |-> fs.disk, pkg |-> fs.pkg,
          error |-> AlreadyExists(projectName)]
    ELSE IF templateError(dirs, tmpl) # "none"
    THEN [exists |-> TRUE, disk |-> EmptyProject.disk, pkg |-> EmptyProject.pkg,
          error |-> templateError(dirs, tmpl)]
    ELSE LET generated == generateFiles(dirs, projectName, tmpl, opts)
         IN  [exists |-> TRUE, disk |-> generated.disk, pkg |-> generated.pkg,
              error |-> generated.error]

\* prepareProject that removes the project directory when the generation of
\* the files throws
prepareProjectCleansUp(exists, fs, dirs, projectName, tmpl, opts) ==
    IF exists
    THEN [exists |-> TRUE, disk |-> fs.disk, pkg |-> fs.pkg,
          error |-> AlreadyExists(projectName)]
    ELSE IF templateError(dirs, tmpl) # "none"
    THEN [exists |-> FALSE, disk |-> fs.disk, pkg |-> fs.pkg,
          error |-> templateError(dirs, tmpl)]
    ELSE LET generated == generateFiles(dirs, projectName, tmpl, opts)
         IN  IF generated.error # "none"
             THEN [exists |-> FALSE, disk |-> EmptyProject.disk, pkg |-> EmptyProject.pkg,
                   error |-> generated.error]
             ELSE [exists |-> TRUE, disk |-> generated.disk, pkg |-> generated.pkg,
                   error |-> generated.error]

\* generateScaffold up to its first await: the existence check, the template
\* checks, mkdirSync(projectRoot) and the generated files.  exists and fs are
\* the project directory before the call: [exists, disk, pkg, error] after it
prepareProject(exists, fs, dirs, projectName, tmpl, opts) ==
    IF exists
    THEN [exists |-> TRUE, disk |-> fs.disk, pkg |-> fs.pkg,
          error |-> AlreadyExists(projectName)]
    ELSE IF templateError(dirs, tmpl) # "none"
    THEN [exists |-> FALSE, disk |-> fs.disk, pkg |-> fs.pkg,
          error |-> templateError(dirs, tmpl)]
    ELSE [exists |-> TRUE] @@ generateFiles(dirs, projectName, tmpl, opts)

\* the call, up to the first await
GenerateScaffold ==
    /\ step = "ready"
    /\ scaffolds < MaxScaffolds
    /\ scaffolds' = scaffolds + 1
    /\ calls' = <<>>
    /\ \E prepared \in {prepareProject(rootExists, Current, templatesDir, ProjectName,
                                        template, options)} :
           /\ rootExists' = prepared.exists
           /\ disk' = prepared.disk
           /\ packageJsonFile' = prepared.pkg
           /\ IF prepared.error # "none"
              THEN /\ outcome' = prepared.error
                   /\ UNCHANGED <<step, installs>>
              ELSE /\ outcome' = "pending"
                   /\ step' = "install"
                   /\ installs' = InstallDirs(template)
    /\ UNCHANGED <<template, pc, analysis, queue, invoked, error, stage, result, runs,
                   faults, initial, templatesDir, options, githubToken>>

\* a catch block that reports the failure and goes on
installCatchSwallows(err) == [thrown |-> FALSE, error |-> err]

\* the catch block of an installation step: spinner.fail, then throw err
installCatch(err) == [thrown |-> TRUE, error |-> err]

\* one installation step: await execa(...) in the next directory
Install ==
    /\ step = "install"
    /\ installs # <<>>
    /\ \E succeeds \in BOOLEAN :
          LET command == IF template = "python" THEN "pip install -r requirements.txt"
                         ELSE "npm install"
              call == Call("execa", command, Head(installs))
              caught == installCatch("Command failed: " \o command)
          IN  /\ calls' = Append(calls, IF succeeds THEN call ELSE Rejected(call))
              /\ IF succeeds \/ ~caught.thrown
                 THEN /\ installs' = Tail(installs)
                      /\ step' = IF Tail(installs) = <<>> THEN "git.init" ELSE "install"
                      /\ UNCHANGED outcome
                 ELSE /\ outcome' = caught.error
                      /\ step' = "ready"
                      /\ UNCHANGED installs
    /\ UNCHANGED <<enhancerVars, rootExists, templatesDir, options, githubToken, scaffolds>>

\* one call of the try block around git: a rejection goes to its catch
\* block, which reports and goes on
Git(at, api, arg, then) ==
    /\ step = at
    /\ \E succeeds \in BOOLEAN :
          /\ calls' = Append(calls, IF succeeds THEN Call(api, arg, "")
                                    ELSE Rejected(Call(api, arg, "")))
          /\ step' = IF succeeds THEN then ELSE AfterGit(githubToken, options)
    /\ UNCHANGED <<enhancerVars, rootExists, templatesDir, options, githubToken, outcome,
                   scaffolds, installs>>

GitInit == Git("git.init", "git.init", "", "git.add")
GitAdd == Git("git.add", "git.add", ".", "git.commit")
GitCommit == Git("git.commit", "git.commit", CommitMessage, AfterGit(githubToken, options))

\* octokit.rest.repos.createForAuthenticatedUser: a rejection is caught
CreateGithubRepository ==
    /\ step = "github"
    /\ \E succeeds \in BOOLEAN :
          LET call == Call("octokit.repos.createForAuthenticatedUser", ProjectName, "")
          IN  calls' = Append(calls, IF succeeds THEN call ELSE Rejected(call))
    /\ step' = AfterGithub(options)
    /\ UNCHANGED <<enhancerVars, rootExists, templatesDir, options, githubToken, outcome,
                   scaffolds, installs>>

\* await enhanceWithAI(projectRoot, template): the call
CallEnhance ==
    /\ step = "enhance"
    /\ calls' = Append(calls, Call("enhanceWithAI", template, ""))
    /\ step' = "enhancing"
    /\ result' = "none"
    /\ UNCHANGED <<template, disk, packageJsonFile, pc, analysis, queue, invoked, error,
                   stage, runs, faults, initial, rootExists, templatesDir, options,
                   githubToken, outcome, scaffolds, installs>>

\* enhanceWithAI starts running for generateScaffold
StartEnhancement ==
    /\ step = "enhancing"
    /\ result = "none"
    /\ EnhanceWithAI

\* the awaited promise settles
EnhancementSettled ==
    /\ step = "enhancing"
    /\ pc = "idle"
    /\ result \in {"resolved", "rejected"}
    /\ IF result = "rejected"
       THEN /\ outcome' = error
            /\ step' = "ready"
       ELSE /\ step' = "done"
            /\ UNCHANGED outcome
    /\ UNCHANGED <<enhancerVars, rootExists, templatesDir, options, githubToken, calls,
                   scaffolds, installs>>

\* the final console.log and the return
Done ==
    /\ step = "done"
    /\ outcome' = "resolved"
    /\ step' = "ready"
    /\ UNCHANGED <<enhancerVars, rootExists, templatesDir, options, githubToken, calls,
                   scaffolds, installs>>

(***************************************************************************)
(* The workspaces generateScaffold is called in                            *)
(***************************************************************************)

\* the contents of <cwd>/templates, the template directories holding the
\* placeholders replacePlaceholders looks for: complete; without react and
\* without the skeleton; with a node template that cannot be read; with a
\* node template that has no package.json
TemplateDirs ==
    LET NodeTemplate ==
            Project(("src" :> Dir)
                    @@ ("src/index.js" :> File("console.log('{{projectName}} on {{port}}');"))
                    @@ ("README.md" :> File("# {{projectName}}")),
                    Manifest(2, ("name" :> "{{projectName}}") @@ ("version" :> "1.0.0"),
                             ("scripts" :> ("test" :> "jest"))
                             @@ ("devDependencies" :> ("jest" :> "^29.7.0"))))
        ReactTemplate ==
            Project(("src" :> Dir) @@ ("src/components" :> Dir)
                    @@ ("src/App.jsx" :> File("export default () => 'Hello from {{projectName}}';"))
                    @@ ("test" :> Dir) @@ ("test/App.test.jsx" :> File("render(<App />);")),
                    Manifest(2, ("name" :> "{{projectName}}"),
                             ("dependencies" :> ("react" :> "^18.2.0"))))
        PythonTemplate ==
            Project(("src" :> Dir) @@ ("src/main.py" :> File("print('{{projectName}}')\n"))
                    @@ ("requirements.txt" :> File("flask==3.0.0\n")),
                    NoFile)
        SkeletonTemplate ==
            Project(("README.md" :> File("# {{projectName}}\n")),
                    Manifest(2, ("name" :> "{{projectName}}"), EmptyMap))
    IN  { ("node" :> NodeTemplate) @@ ("react" :> ReactTemplate)
              @@ ("python" :> PythonTemplate) @@ ("full-stack" :> SkeletonTemplate),
          ("node" :> NodeTemplate) @@ ("python" :> PythonTemplate),
          ("node" :> Project(LockedTree, NodeManifest)) @@ ("react" :> ReactTemplate),
          ("node" :> Project(BasicTree, NoFile)) @@ ("react" :> ReactTemplate) }

\* the options the command line passes on, template excepted
ScaffoldOptions ==
    { [aiEnhanced |-> FALSE, deployTarget |-> "vercel", withDemo |-> FALSE],
      [aiEnhanced |-> TRUE, deployTarget |-> "vercel", withDemo |-> FALSE],
      [aiEnhanced |-> FALSE, deployTarget |-> "netlify", withDemo |-> TRUE],
      [aiEnhanced |-> TRUE, deployTarget |-> "aws", withDemo |-> TRUE],
      [aiEnhanced |-> FALSE, deployTarget |-> "gcp", withDemo |-> FALSE],
      [aiEnhanced |-> TRUE, deployTarget |-> "heroku", withDemo |-> FALSE] }

\* a directory that is in the way of the project
ExistingDirectory == Project(BasicTree, MinimalManifest)

ScaffoldInit ==
    /\ template \in Templates \cup {"non-existent-template"}
    /\ templatesDir \in TemplateDirs
    /\ options \in ScaffoldOptions
    /\ githubToken \in BOOLEAN
    /\ rootExists \in BOOLEAN
    /\ disk = IF rootExists THEN ExistingDirectory.disk ELSE EmptyProject.disk
    /\ packageJsonFile = IF rootExists THEN ExistingDirectory.pkg ELSE EmptyProject.pkg
    /\ initial = [disk |-> disk, pkg |-> packageJsonFile]
    /\ pc = "idle"
    /\ analysis = NoAnalysis
    /\ queue = <<>>
    /\ invoked = <<>>
    /\ error = "none"
    /\ stage = "none"
    /\ result = "none"
    /\ runs = 0
    /\ faults = 0
    /\ step = "ready"
    /\ calls = <<>>
    /\ outcome = "none"
    /\ scaffolds = 0
    /\ installs = <<>>

ScaffoldNext ==
    \/ GenerateScaffold
    \/ Install
    \/ GitInit
    \/ GitAdd
    \/ GitCommit
    \/ CreateGithubRepository
    \/ CallEnhance
    \/ StartEnhancement
    \/ Analyze
    \/ ApplyHigh
    \/ FilterMedium
    \/ ApplyMedium
    \/ FilterLow
    \/ ApplyLow
    \/ WriteSummary
    \/ Catch
    \/ EnhancementSettled
    \/ Done

ScaffoldSpec == ScaffoldInit /\ [][ScaffoldNext]_vars

(***************************************************************************)
(* Properties                                                              *)
(***************************************************************************)

Rank(priority) ==
    CASE priority = "high" -> 1 [] priority = "medium" -> 2 [] priority = "low" -> 3

SummaryPath == "AI_ENHANCEMENTS.md"

\* AI_ENHANCEMENTS.md holds the summary of the current run's analysis
SummaryWritten ==
    /\ SummaryPath \in DOMAIN disk
    /\ disk[SummaryPath].kind = "file"
    /\ Includes(disk[SummaryPath].content, "# AI Enhancement Summary")

\* the result of operation o is on fs
EffectPresent(o, fs) ==
    CASE o.op = "editManifest" ->
            /\ fs.pkg.kind = "json"
            /\ \A k \in 1..Len(o.sets) :
                  /\ o.sets[k][1] \in DOMAIN fs.pkg.obj.sections
                  /\ o.sets[k][2] \in DOMAIN fs.pkg.obj.sections[o.sets[k][1]]
                  /\ fs.pkg.obj.sections[o.sets[k][1]][o.sets[k][2]] = o.sets[k][3]
      [] o.op = "mkdir" -> existsSync(fs.disk, fs.pkg, o.path)
      [] o.op = "write" -> o.path \in DOMAIN fs.disk /\ fs.disk[o.path] = File(o.content)
      [] o.op = "gitignore" ->
            /\ o.path \in DOMAIN fs.disk /\ fs.disk[o.path].kind = "file"
            /\ Includes(fs.disk[o.path].content, ".env")
      [] o.op = "requirements" ->
            /\ o.path \in DOMAIN fs.disk /\ fs.disk[o.path].kind = "file"
            /\ Includes(fs.disk[o.path].content, "mypy")

\* every result of improvement's implementation is on fs
EffectsPresent(improvement, fs) ==
    LET ops == Implementation(improvement.implementation)
    IN  \A k \in 1..Len(ops) : EffectPresent(ops[k], fs)

\* every manifest entry improvement's implementation sets is in fs's manifest
ManifestEntriesPresent(improvement, fs) ==
    LET ops == Implementation(improvement.implementation)
    IN  \A k \in 1..Len(ops) : ops[k].op = "editManifest" => EffectPresent(ops[k], fs)

\* the keys of section that the implementation called name sets
KeysSet(name, section) ==
    LET ops == Implementation(name)
    IN  UNION { {ops[k].sets[n][2] :
                    n \in {m \in 1..Len(ops[k].sets) : ops[k].sets[m][1] = section}} :
                k \in {j \in 1..Len(ops) : ops[j].op = "editManifest"} }

SectionNames == {"dependencies", "devDependencies", "scripts"}

SectionOf(obj, section) ==
    IF section \in DOMAIN obj.sections THEN obj.sections[section] ELSE EmptyMap

FeatureNames ==
    {"hasTests", "hasLinting", "hasFormatting", "hasTypeScript", "hasDocumentation",
     "hasErrorHandling", "hasEnvironmentConfig", "hasLogging", "hasValidation",
     "hasApiDocumentation"}

\* C1: in every run, no implementation of a lower priority is invoked before
\* one of a higher priority: every "high" one is invoked before any "medium"
\* one, and every "medium" one before any "low" one.
C1_PriorityOrder ==
    \A i, j \in 1..Len(invoked) :
        i < j => Rank(invoked[i].priority) <= Rank(invoked[j].priority)

\* a full-stack run that completed and invoked all three priorities, on a
\* synthesized list in which a "medium" enhancement precedes a "high" one
C1_Witness ==
    /\ pc = "idle" /\ error = "none" /\ result = "resolved"
    /\ \A priority \in {"high", "medium", "low"} :
          \E i \in 1..Len(invoked) : invoked[i].priority = priority
    /\ \E i, j \in 1..Len(analysis.improvements) :
          /\ i < j
          /\ analysis.improvements[i].priority = "medium"
          /\ analysis.improvements[j].priority = "high"

\* C2: when an implementation has thrown, the promise of enhanceWithAI is
\* never rejected, and once the run is over it is resolved.
C2_NeverRejects ==
    (stage = "apply" /\ error # "none") =>
        /\ result # "rejected"
        /\ pc = "idle" => result = "resolved"

\* a run that ended after one of its implementations threw
C2_Witness ==
    /\ pc = "idle" /\ stage = "apply" /\ error # "none" /\ result = "resolved"
    /\ Len(invoked) >= 1

\* C3: a run that is over, in which every implementation succeeded or one of
\* them threw, has written AI_ENHANCEMENTS.md, and the file lists every
\* synthesized enhancement.
C3_SummaryAlwaysWritten ==
    (pc = "idle" /\ runs > 0 /\ (error = "none" \/ stage = "apply")) =>
        /\ SummaryWritten
        /\ \A i \in 1..Len(analysis.improvements) :
              Includes(disk[SummaryPath].content, SummaryItem(analysis.improvements[i]))

\* the results of every implementation invoked before the last one are on disk
EarlierEffectsKept ==
    \A i \in 1..(Len(invoked) - 1) : EffectsPresent(invoked[i], Current)

\* C4: when the k-th implementation throws, the results of the k-1 before it
\* are on disk, and from then on the run invokes no implementation and changes
\* neither the tree nor the manifest (nothing is rolled back, nothing more is
\* applied).
C4_PartialApplicationKept ==
    [][ /\ (error' # "none" /\ stage' = "apply") => EarlierEffectsKept'
        /\ (error # "none" /\ stage = "apply" /\ runs' = runs) =>
              /\ invoked' = invoked
              /\ disk' = disk
              /\ packageJsonFile' = packageJsonFile ]_vars

\* a run that ended after its third or a later implementation threw, with
\* enhancements left in the loop's list that were never invoked
C4_Witness ==
    /\ pc = "idle" /\ stage = "apply" /\ error # "none"
    /\ Len(invoked) >= 3
    /\ Len(queue) >= 2
    /\ EarlierEffectsKept
    /\ Current # initial

\* C5: in every project state in which an implementation succeeds, running it
\* a second time succeeds and leaves the manifest and every file as the first
\* run left them.
C5_Idempotent ==
    \A name \in ImplementationNames :
        LET once == RunOps(Current, Implementation(name), 0)
            twice == RunOps([disk |-> once.disk, pkg |-> once.pkg], Implementation(name), 0)
        IN  once.error = "none" =>
                /\ twice.error = "none"
                /\ twice.disk = once.disk
                /\ twice.pkg = once.pkg

\* addEnvironmentConfig has run on a project whose .gitignore had no ".env"
\* line and has appended one
C5_Witness ==
    /\ pc = "idle" /\ error = "none"
    /\ \E i \in 1..Len(invoked) : invoked[i].implementation = "addEnvironmentConfig"
    /\ ".gitignore" \in DOMAIN initial.disk
    /\ ~Includes(initial.disk[".gitignore"].content, ".env")
    /\ disk[".gitignore"].content = initial.disk[".gitignore"].content \o "\n.env\n"

\* C6: in every project state with a manifest, an implementation that succeeds
\* leaves every scalar top-level field of the manifest as it was, creates or
\* removes no section it sets no entry of, and leaves every entry it does not
\* set, in every section, as it was.
C6_ManifestFrame ==
    \A name \in ImplementationNames :
        LET after == RunOps(Current, Implementation(name), 0)
            old == packageJsonFile.obj
            new == after.pkg.obj
        IN  (after.error = "none" /\ packageJsonFile.kind = "json") =>
                /\ after.pkg.kind = "json"
                /\ new.fields = old.fields
                /\ \A section \in SectionNames :
                      /\ KeysSet(name, section) = {} =>
                            (section \in DOMAIN new.sections <=> section \in DOMAIN old.sections)
                      /\ section \in DOMAIN old.sections => section \in DOMAIN new.sections
                      /\ \A key \in (DOMAIN SectionOf(old, section)
                                     \cup DOMAIN SectionOf(new, section))
                                    \ KeysSet(name, section) :
                            /\ key \in DOMAIN SectionOf(old, section)
                            /\ key \in DOMAIN SectionOf(new, section)
                            /\ SectionOf(new, section)[key] = SectionOf(old, section)[key]

\* a run on the manifest with a jest devDependency and start/test scripts has
\* applied enhanceTestingConfig and addLogging, and those entries are still there
C6_Witness ==
    /\ pc = "idle" /\ error = "none"
    /\ initial.pkg = NodeManifest
    /\ \E i \in 1..Len(invoked) : invoked[i].implementation = "enhanceTestingConfig"
    /\ \E i \in 1..Len(invoked) : invoked[i].implementation = "addLogging"
    /\ packageJsonFile.obj.sections["devDependencies"]["jest"] = "^29.7.0"
    /\ packageJsonFile.obj.sections["devDependencies"]["supertest"] = "^6.3.3"
    /\ packageJsonFile.obj.sections["scripts"]["start"] = "node src/index.js"
    /\ packageJsonFile.obj.fields = NodeManifest.obj.fields

\* C7: as long as no implementation of the run has failed, the manifest holds
\* every entry set by every implementation invoked so far; in particular it
\* does when the run is over.
C7_NoLostUpdate ==
    error = "none" =>
        \A i \in 1..Len(invoked) : ManifestEntriesPresent(invoked[i], Current)

\* a run that completed after at least four manifest-editing implementations
C7_Witness ==
    /\ pc = "idle" /\ error = "none" /\ result = "resolved"
    /\ Cardinality({i \in 1..Len(invoked) : KeysSet(invoked[i].implementation, "dependencies") # {}}) >= 4
    /\ \E i \in 1..Len(invoked) : KeysSet(invoked[i].implementation, "scripts") # {}

\* some source file of the tree cannot be read
HasUnreadableSource(tree) ==
    \E p \in DOMAIN tree : IsSourceFile(p) /\ tree[p].kind = "unreadable"

\* C8: on a project with no manifest (and every source file readable), the
\* analysis does not throw, its dependencies and devDependencies are empty and
\* each of the ten features is a boolean.
C8_NoManifestAllBoolean ==
    (runs > 0 /\ pc # "analyze" /\ initial.pkg.kind = "none"
       /\ ~HasUnreadableSource(initial.disk)) =>
        /\ stage # "analyze"
        /\ analysis.dependencies = {}
        /\ analysis.devDependencies = {}
        /\ \A f \in FeatureNames : analysis.structure[f].t = "boolean"

\* C9: a run on a project with no manifest, on a healthy disk, ends with the
\* summary written, and the summary reports zero production and zero
\* development dependencies.
C9_NoManifestRunWritesSummary ==
    (pc = "idle" /\ runs > 0 /\ initial.pkg.kind = "none"
       /\ ~HasUnreadableSource(initial.disk) /\ error \in {"none", "ENOENT"}) =>
        /\ SummaryWritten
        /\ Includes(disk[SummaryPath].content, "- **Dependencies**: 0 production dependencies")
        /\ Includes(disk[SummaryPath].content,
                    "- **Dev Dependencies**: 0 development dependencies")

\* C10: when the manifest is absent or parses, the analysis of a run never
\* aborts, whatever source files cannot be read.
C10_UnreadableSkipped ==
    (runs > 0 /\ pc # "analyze" /\ initial.pkg.kind # "garbage") => stage # "analyze"

\* C11: in a run on a project whose source files are all readable, whatever
\* the state of the manifest file, scanning, manifest reading, classification
\* and synthesis raise no error: no run fails before the application step.
C11_OnlyApplicationFails ==
    (runs > 0 /\ ~HasUnreadableSource(initial.disk)) => stage # "analyze"

\* the names of libs that are keys of the dependencies or devDependencies of
\* the manifest file
DeclaredLibs(file, libs) ==
    {libs[i] : i \in 1..Len(libs)}
    \cap (DOMAIN SectionOf(file.obj, "dependencies")
          \cup DOMAIN SectionOf(file.obj, "devDependencies"))

\* C13: after an analysis, hasLogging is true when the manifest declares a
\* library of the logging allow-list as a dependency or devDependency, and
\* false when it declares none and no scanned path contains "log".
C13_LoggingAllowList ==
    (runs > 0 /\ pc # "analyze" /\ stage # "analyze") =>
        /\ DeclaredLibs(initial.pkg, loggingLibs) # {} =>
              analysis.structure.hasLogging = JsBool(TRUE)
        /\ (DeclaredLibs(initial.pkg, loggingLibs) = {}
              /\ ~SomeIncludes(analysis.files, "log")) =>
              analysis.structure.hasLogging = JsBool(FALSE)

\* the analysis of the current run has completed
Analyzed == runs > 0 /\ pc # "analyze" /\ stage # "analyze"

\* the synthesized list holds an enhancement with this description and priority
Offered(description, priority) ==
    \E i \in 1..Len(analysis.improvements) :
        /\ analysis.improvements[i].description = description
        /\ analysis.improvements[i].priority = priority

\* the synthesized list holds an enhancement with this description
OfferedAtAll(description) ==
    \E i \in 1..Len(analysis.improvements) :
        analysis.improvements[i].description = description

\* C14: for every template, the logging enhancement (high) is offered exactly
\* when hasLogging is false, the error-handling enhancement (high) exactly
\* when hasErrorHandling is false and the environment-configuration
\* enhancement (medium) exactly when hasEnvironmentConfig is false.
C14_GenericRules ==
    Analyzed =>
        /\ OfferedAtAll("Add structured logging with Winston")
              <=> ~Truthy(analysis.structure.hasLogging)
        /\ OfferedAtAll("Add structured logging with Winston")
              => Offered("Add structured logging with Winston", "high")
        /\ OfferedAtAll("Add comprehensive error handling")
              <=> ~Truthy(analysis.structure.hasErrorHandling)
        /\ OfferedAtAll("Add comprehensive error handling")
              => Offered("Add comprehensive error handling", "high")
        /\ OfferedAtAll("Add environment configuration with dotenv")
              <=> ~Truthy(analysis.structure.hasEnvironmentConfig)
        /\ OfferedAtAll("Add environment configuration with dotenv")
              => Offered("Add environment configuration with dotenv", "medium")

\* an analysis that found logging but no environment configuration and no
\* error handling: the first enhancement is withheld, the other two offered
C14_Witness ==
    /\ Analyzed
    /\ Truthy(analysis.structure.hasLogging)
    /\ ~Truthy(analysis.structure.hasEnvironmentConfig)
    /\ ~Truthy(analysis.structure.hasErrorHandling)
    /\ ~OfferedAtAll("Add structured logging with Winston")
    /\ Offered("Add environment configuration with dotenv", "medium")
    /\ Offered("Add comprehensive error handling", "high")

\* C15: the input-validation and API-documentation enhancements (both
\* medium) are offered exactly when the template is node or full-stack and
\* the matching feature is false; they are never offered for react or python.
C15_NodeLikeRules ==
    Analyzed =>
        LET nodeLike == template \in {"node", "full-stack"}
        IN  /\ OfferedAtAll("Add input validation with Joi")
                  <=> (nodeLike /\ ~Truthy(analysis.structure.hasValidation))
            /\ OfferedAtAll("Add input validation with Joi")
                  => Offered("Add input validation with Joi", "medium")
            /\ OfferedAtAll("Add API documentation with Swagger/OpenAPI")
                  <=> (nodeLike /\ ~Truthy(analysis.structure.hasApiDocumentation))
            /\ OfferedAtAll("Add API documentation with Swagger/OpenAPI")
                  => Offered("Add API documentation with Swagger/OpenAPI", "medium")

\* a node project that already declares a validation library: validation is
\* withheld while API documentation is offered
C15_Witness ==
    /\ Analyzed
    /\ template = "node"
    /\ Truthy(analysis.structure.hasValidation)
    /\ ~Truthy(analysis.structure.hasApiDocumentation)
    /\ ~OfferedAtAll("Add input validation with Joi")
    /\ Offered("Add API documentation with Swagger/OpenAPI", "medium")

\* C16: the testing-configuration enhancement (medium) is offered for every
\* feature vector and every template, so a synthesized list is never empty.
C16_TestingAlwaysOffered ==
    Analyzed =>
        /\ Offered("Enhance testing configuration with coverage reporting", "medium")
        /\ Len(analysis.improvements) > 0

\* an analysis of a project that already has tests, logging, error handling
\* and environment configuration still offers the testing enhancement
C16_Witness ==
    /\ Analyzed
    /\ Truthy(analysis.structure.hasTests)
    /\ Truthy(analysis.structure.hasLogging)
    /\ Truthy(analysis.structure.hasErrorHandling)
    /\ Truthy(analysis.structure.hasEnvironmentConfig)
    /\ Offered("Enhance testing configuration with coverage reporting", "medium")

\* every enhancement of the list is among the synthesized ones
AllOffered(list) ==
    \A i \in 1..Len(list) : Offered(list[i].description, list[i].priority)

\* C17: synthesis for react includes the routing and the performance
\* enhancements, synthesis for python includes the logging-configuration
\* enhancement, and synthesis for full-stack completes and includes every
\* react-specific enhancement, every node-specific one and the API client.
C17_TemplateSpecialization ==
    Analyzed =>
        /\ template = "react" =>
              /\ OfferedAtAll("Add React Router for navigation")
              /\ OfferedAtAll("Add React performance optimization utilities")
        /\ template = "python" =>
              OfferedAtAll("Add Python logging configuration")
        /\ template = "full-stack" =>
              /\ AllOffered(getReactImprovements)
              /\ AllOffered(getNodeImprovements)
              /\ OfferedAtAll("Add API client utilities for frontend-backend communication")

\* a full-stack analysis that completed and offers the security middleware
\* of the node set, the hooks of the react set and the API client
C17_Witness ==
    /\ Analyzed
    /\ template = "full-stack"
    /\ error = "none"
    /\ Offered("Add security middleware (helmet, cors)", "high")
    /\ Offered("Add custom React hooks for common patterns", "low")
    /\ Offered("Add API client utilities for frontend-backend communication", "high")

\* C18: within one synthesis run no two enhancements of the synthesized list
\* have the same description.
C18_UniqueDescriptions ==
    Analyzed =>
        \A i, j \in 1..Len(analysis.improvements) :
            i # j => analysis.improvements[i].description
                        # analysis.improvements[j].description

\* the longest list: a full-stack analysis with every generic rule firing,
\* followed by the react set, the node set and the API client
C18_Witness ==
    /\ Analyzed
    /\ template = "full-stack"
    /\ Len(analysis.improvements) = 13

\* position of the first occurrence of sub in s, 0 when there is none
IndexOf(s, sub) ==
    LET hits == {i \in 1..(Len(s) - Len(sub) + 1) : SubSeq(s, i, i + Len(sub) - 1) = sub}
    IN  IF hits = {} THEN 0 ELSE CHOOSE i \in hits : \A j \in hits : i <= j

\* C19: in the list of the written summary every high enhancement appears
\* before every medium one and every medium one before every low one.
C19_SummaryGroupedByPriority ==
    (runs > 0 /\ pc = "idle" /\ error = "none" /\ SummaryWritten) =>
        LET content == disk[SummaryPath].content
        IN  \A i, j \in 1..Len(analysis.improvements) :
                Rank(analysis.improvements[i].priority)
                    < Rank(analysis.improvements[j].priority) =>
                    /\ IndexOf(content, SummaryItem(analysis.improvements[i])) > 0
                    /\ IndexOf(content, SummaryItem(analysis.improvements[i]))
                          < IndexOf(content, SummaryItem(analysis.improvements[j]))

\* the names along a relative path
Components(p) == {Basename(q) : q \in Ancestors(p)}

\* the path lies in, or is, an entry named node_modules or .git
InExcludedEntry(p) == Components(p) \cap {"node_modules", ".git"} # {}

\* the paths of the scanned file list
Scanned == {analysis.files[i] : i \in 1..Len(analysis.files)}

\* the regular files below the project root when the run started
RegularFiles ==
    {p \in DOMAIN initial.disk : initial.disk[p].kind \in {"file", "unreadable"}}
    \cup (IF initial.pkg.kind = "none" THEN {} ELSE {"package.json"})

\* C20: no path of the scanned file list has a component named node_modules
\* or .git, at any depth, and every other regular file below the project
\* root is in the list under its path relative to the root.
C20_ExcludedDirectories ==
    Analyzed =>
        /\ \A p \in Scanned : ~InExcludedEntry(p)
        /\ \A p \in RegularFiles : ~InExcludedEntry(p) => p \in Scanned

\* a scan of a tree with node_modules and .git below the first level that
\* listed their siblings, and a file whose name only contains node_modules
C20_Witness ==
    /\ Analyzed
    /\ "client/node_modules/react/index.js" \in DOMAIN initial.disk
    /\ "server/.git/HEAD" \in DOMAIN initial.disk
    /\ "client/src/App.jsx" \in Scanned
    /\ "server/index.js" \in Scanned
    /\ "docs/node_modules.txt" \in Scanned

\* the types of the scaffold variables
ScaffoldTypeOK ==
    /\ step \in {"direct", "ready", "install", "git.init", "git.add", "git.commit",
                 "github", "enhance", "enhancing", "done"}
    /\ rootExists \in BOOLEAN
    /\ scaffolds \in 0..MaxScaffolds

\* a generateScaffold call starts in this step
ScaffoldCalled == step = "ready" /\ scaffolds' = scaffolds + 1

\* C21: a generateScaffold call for a project directory that already exists
\* rejects with 'Directory <name> already exists.' and is over at once: it
\* writes no file, installs nothing, makes no git call and no enhancement.
C21_ExistingDirectoryRejected ==
    [][(ScaffoldCalled /\ rootExists) =>
          /\ outcome' = "Directory test-project already exists."
          /\ step' = "ready"
          /\ calls' = <<>>
          /\ disk' = disk
          /\ packageJsonFile' = packageJsonFile
          /\ runs' = runs]_vars

\* the first call found a directory in its way and rejected
C21_Witness ==
    /\ scaffolds = 1
    /\ step = "ready"
    /\ outcome = AlreadyExists(ProjectName)
    /\ disk = ExistingDirectory.disk
    /\ calls = <<>>

\* a template directory the call needs is not below <cwd>/templates
TemplateMissing ==
    IF template = "full-stack"
    THEN ~({"node", "react"} \subseteq DOMAIN templatesDir)
    ELSE template \notin DOMAIN templatesDir

\* the message names the template that was not found, or the two templates
\* full-stack requires
TemplateNotFound(message) ==
    IF template = "full-stack"
    THEN message = "Full-stack template requires both \"node\" and \"react\" templates."
    ELSE Includes(message, "Template '" \o template \o "' not found")

\* C22: a generateScaffold call whose template directory is missing (for
\* full-stack: the node or the react template) rejects with a
\* template-not-found error before the project directory is created, so
\* there is no project directory afterwards.
C22_MissingTemplateRejected ==
    [][(ScaffoldCalled /\ ~rootExists /\ TemplateMissing) =>
          /\ TemplateNotFound(outcome')
          /\ step' = "ready"
          /\ ~rootExists'
          /\ calls' = <<>>]_vars

\* a call for a template that is not there has rejected and left no directory
C22_Witness ==
    /\ scaffolds = 1
    /\ step = "ready"
    /\ template = "non-existent-template"
    /\ outcome = "Template 'non-existent-template' not found at /cwd/templates/non-existent-template"
    /\ ~rootExists

\* the calls made after the i-th one
CallsAfter(i) == {calls[j].api : j \in (i + 1)..Len(calls)}

\* C23: when an installation step fails, generateScaffold rejects with the
\* installer's error and performs none of the later steps: no git call, no
\* repository creation, no enhancement.
C23_InstallFailureStops ==
    \A i \in 1..Len(calls) :
        (calls[i].api = "execa" /\ calls[i].rejected) =>
            /\ outcome = "Command failed: " \o calls[i].arg
            /\ step = "ready"
            /\ CallsAfter(i) = {}
            /\ runs = 0

\* the second of the three full-stack installations failed
C23_Witness ==
    /\ template = "full-stack"
    /\ Len(calls) = 2
    /\ ~calls[1].rejected
    /\ calls[2] = Rejected(Call("execa", "npm install", "server"))
    /\ outcome = "Command failed: npm install"

\* no call of the current generateScaffold call was rejected
NoCallRejected == \A i \in 1..Len(calls) : ~calls[i].rejected

\* C24: a successful generateScaffold initializes a git repository, stages
\* all files with add('.') and creates a commit whose message is
\* 'chore: initial commit via openai-internal-copilot'.
C24_InitialCommit ==
    (outcome = "resolved" /\ NoCallRejected) =>
        \E i, j, k \in 1..Len(calls) :
            /\ i < j /\ j < k
            /\ calls[i].api = "git.init"
            /\ calls[j].api = "git.add" /\ calls[j].arg = "."
            /\ calls[k].api = "git.commit"
            /\ calls[k].arg = "chore: initial commit via openai-internal-copilot"

\* the directories an installation has succeeded in, in the current call
Installed == {calls[i].cwd : i \in {j \in 1..Len(calls) :
                                       calls[j].api = "execa" /\ ~calls[j].rejected}}

\* the current generateScaffold call has called the enhancement engine
EngineInvoked == \E i \in 1..Len(calls) : calls[i].api = "enhanceWithAI"

\* C25: generateScaffold invokes the enhancement engine only when aiEnhanced
\* is set and only after the files were generated and every installation
\* succeeded; with aiEnhanced false the engine is never invoked and no
\* summary file is written.
C25_EnhancementGated ==
    /\ EngineInvoked =>
          /\ options.aiEnhanced
          /\ rootExists
          /\ ".github/workflows/ci.yml" \in DOMAIN disk
          /\ (IF template = "full-stack" THEN {"", "server", "client"} ELSE {""})
                \subseteq Installed
          /\ \A i \in 1..Len(calls) : calls[i].api = "execa" => ~calls[i].rejected
    /\ (pc # "idle" \/ runs > 0) => options.aiEnhanced
    /\ pc # "idle" => EngineInvoked
    /\ ~options.aiEnhanced =>
          /\ ~EngineInvoked
          /\ SummaryPath \notin DOMAIN disk

\* a full-stack call with aiEnhanced set has reached the engine after its
\* three installations
C25_Witness ==
    /\ options.aiEnhanced
    /\ template = "full-stack"
    /\ Installed = {"", "server", "client"}
    /\ step = "enhancing"
    /\ pc = "high"
    /\ "server/package.json" \in DOMAIN initial.disk

\* C30: generateScaffold never removes the project directory it created:
\* the directory is there after a call that got past the template checks,
\* whatever failed later, it stays there in every later step, and a
\* following call with the same name rejects with 'Directory <name> already
\* exists.'.
C30_DirectoryKept ==
    [][/\ rootExists => rootExists'
       /\ (ScaffoldCalled /\ ~rootExists /\ ~TemplateMissing) => rootExists'
       /\ (ScaffoldCalled /\ scaffolds > 0 /\ rootExists) =>
             /\ outcome' = AlreadyExists(ProjectName)
             /\ step' = "ready"]_vars

\* the second call rejected on the directory of a first call that generated
\* every file and then failed to install: with aiEnhanced set, a first call
\* that had succeeded would have run the engine
C30_Witness ==
    /\ scaffolds = 2
    /\ outcome = AlreadyExists(ProjectName)
    /\ options.aiEnhanced
    /\ runs = 0
    /\ rootExists
    /\ ".github/workflows/ci.yml" \in DOMAIN disk

\* the descriptions and priorities of the synthesized list, in its order
Synthesized ==
    [i \in 1..Len(analysis.improvements) |->
        <<analysis.improvements[i].description, analysis.improvements[i].priority>>]

\* the project the current run started on has none of the features the
\* generic rules test, and its manifest declares jest
BareProjectWithJest ==
    /\ "jest" \in analysis.devDependencies
    /\ \A i \in 1..Len(loggingLibs) :
          loggingLibs[i] \notin analysis.dependencies \cup analysis.devDependencies
    /\ \A i \in 1..Len(validationLibs) :
          validationLibs[i] \notin analysis.dependencies \cup analysis.devDependencies
    /\ \A i \in 1..Len(analysis.files) :
          /\ \A word \in {"log", ".env", "config", "swagger", "openapi"} :
                ~Includes(analysis.files[i], word)
          /\ (IsSourceFile(analysis.files[i]) /\ analysis.files[i] \in DOMAIN initial.disk) =>
                \A word \in {"try", "catch", "throw"} :
                    ~Includes(initial.disk[analysis.files[i]].content, word)

\* C26: for a node project whose manifest declares jest and no logging or
\* validation library, whose source files hold no try, catch or throw and
\* whose paths hold none of 'log', '.env', 'config', 'swagger', 'openapi',
\* synthesis yields exactly: logging (high), error handling (high),
\* environment configuration (medium), input validation (medium), API
\* documentation (medium), testing configuration (medium), database
\* utilities (medium), security middleware (high), rate limiting and caching
\* (medium).
C26_BareNodeSequence ==
    (Analyzed /\ template = "node" /\ BareProjectWithJest) =>
        Synthesized =
            << <<"Add structured logging with Winston", "high">>,
               <<"Add comprehensive error handling", "high">>,
               <<"Add environment configuration with dotenv", "medium">>,
               <<"Add input validation with Joi", "medium">>,
               <<"Add API documentation with Swagger/OpenAPI", "medium">>,
               <<"Enhance testing configuration with coverage reporting", "medium">>,
               <<"Add database connection utilities", "medium">>,
               <<"Add security middleware (helmet, cors)", "high">>,
               <<"Add rate limiting and caching", "medium">> >>

\* the analysis of such a project has completed
C26_Witness ==
    /\ Analyzed
    /\ template = "node"
    /\ BareProjectWithJest
    /\ pc = "high"
    /\ Len(analysis.improvements) = 9

\* the positions of an enhancement in the synthesized list
SynthesizedAt(improvement) ==
    {i \in 1..Len(analysis.improvements) : analysis.improvements[i] = improvement}

\* C27: within a priority group the implementations are invoked in the order
\* of the synthesized list: of two invoked enhancements of one priority the
\* one invoked first stands first in the list, and when an enhancement has
\* been invoked, every enhancement of its priority that stands before it in
\* the list has been invoked before it.
C27_OrderWithinPriority ==
    /\ \A i, j \in 1..Len(invoked) :
          (i < j /\ invoked[i].priority = invoked[j].priority) =>
              \A m \in SynthesizedAt(invoked[i]), n \in SynthesizedAt(invoked[j]) : m < n
    /\ \A j \in 1..Len(invoked) :
          /\ SynthesizedAt(invoked[j]) # {}
          /\ \A n \in SynthesizedAt(invoked[j]), m \in 1..Len(analysis.improvements) :
                (m < n /\ analysis.improvements[m].priority = invoked[j].priority) =>
                    \E i \in 1..(j - 1) : invoked[i] = analysis.improvements[m]

\* a run that has invoked every enhancement of a list in which a high
\* enhancement stands between two medium ones
C27_Witness ==
    /\ pc = "low"
    /\ Len(invoked) = Len(analysis.improvements)
    /\ \E m, n, o \in 1..Len(analysis.improvements) :
          /\ m < n /\ n < o
          /\ analysis.improvements[m].priority = "medium"
          /\ analysis.improvements[n].priority = "high"
          /\ analysis.improvements[o].priority = "medium"

\* the number of times an enhancement has been invoked in the current run
TimesInvoked(improvement) ==
    Cardinality({j \in 1..Len(invoked) : invoked[j] = improvement})

\* every implementation invoked in the current run has returned
NoImplementationFailed == stage \in {"none", "summary"}

\* C28: the enhancements of a run are fixed at synthesis: while the groups
\* are applied the synthesized list does not change, what is left of the
\* current group is the enhancements of that priority in the list that have
\* not been invoked yet, nothing outside the list is invoked and nothing
\* twice, and when the run ends without a failed implementation every
\* synthesized enhancement has been invoked exactly once.
C28_FixedAtSynthesis ==
    /\ [](/\ pc \in {"high", "medium", "low"} =>
                queue = SelectSeq(analysis.improvements,
                                  LAMBDA imp : imp.priority = pc /\ TimesInvoked(imp) = 0)
          /\ \A j \in 1..Len(invoked) :
                /\ SynthesizedAt(invoked[j]) # {}
                /\ TimesInvoked(invoked[j]) = 1
          /\ (pc \in {"idle", "caught"} /\ runs > 0 /\ NoImplementationFailed) =>
                \A m \in 1..Len(analysis.improvements) :
                    TimesInvoked(analysis.improvements[m]) = 1)
    /\ [][(pc \in {"high", "medium", "low"}) =>
             (analysis.improvements)' = analysis.improvements]_vars

\* a run that ended without failure after its logging enhancement, applied
\* first, made the project one for which logging would not be synthesized
C28_Witness ==
    /\ pc = "idle"
    /\ runs = 1
    /\ error = "none"
    /\ Len(invoked) = Len(analysis.improvements)
    /\ Len(invoked) > 0
    /\ invoked[1].implementation = "addLogging"
    /\ "src/utils/logger.js" \in DOMAIN disk

\* the enhancements the generic rules offer on a condition
ConditionalGenerics ==
    {"Add structured logging with Winston", "Add comprehensive error handling",
     "Add environment configuration with dotenv", "Add input validation with Joi",
     "Add API documentation with Swagger/OpenAPI"}

\* the current run started on the project a run without failure left behind:
\* only such a run writes the summary
SecondRunAfterSuccess ==
    /\ runs = 2
    /\ Analyzed
    /\ initial.pkg.kind = "json"
    /\ SummaryPath \in DOMAIN initial.disk

\* C29: a second run over the project a failure-free run left behind offers
\* none of the conditional generic enhancements (logging, error handling,
\* environment configuration, input validation, API documentation); the
\* testing enhancement and the template-specific ones are offered again.
C29_SecondRunOffers ==
    SecondRunAfterSuccess =>
        /\ \A description \in ConditionalGenerics : ~OfferedAtAll(description)
        /\ Synthesized =
              << <<"Enhance testing configuration with coverage reporting", "medium">> >> \o
              [i \in 1..Len(getTemplateSpecificImprovements(template)) |->
                  <<getTemplateSpecificImprovements(template)[i].description,
                    getTemplateSpecificImprovements(template)[i].priority>>]

\* the second analysis of a project whose first run applied all five
\* conditional generic enhancements
C29_Witness ==
    /\ SecondRunAfterSuccess
    /\ pc = "high"
    /\ template = "node"
    /\ \A file \in {"src/utils/logger.js", "src/utils/errorHandler.js", ".env.example",
                    "src/utils/validation.js", "src/utils/swagger.js"} :
          file \in DOMAIN initial.disk

====
